---- MODULE Spec2Model ----
(***************************************************************************)
(* A model of mvanbem/sudoku-generator: the clause store and its DIMACS    *)
(* writer (formula_builder.rs), the gate, cardinality and bit-vector       *)
(* layers built on it, the Sudoku domain (sudoku.rs), the problem encoder  *)
(* build_formula (emit_problem.rs) and the external solver that reads the  *)
(* emitted DIMACS and returns some model of it.                            *)
(*                                                                         *)
(* The program fixes the board side to 9 (boxes of 3 by 3).  The encoder   *)
(* is modelled for a board of side Side, with boxes of BoxRows by BoxCols  *)
(* cells; every 9 and 3 of the source is written in terms of Side.  Side   *)
(* is a bound of the model: the models of the 9 by 9 formula cannot be     *)
(* enumerated.                                                             *)
(***************************************************************************)
EXTENDS Integers, Sequences, FiniteSets, TLC

VARIABLES
    formula,    \* the TaggedVariableFormulaBuilder
    pc,         \* position of the program
    sink,       \* what write_dimacs wrote to its sink, line by line
    calls,      \* history: the builder calls made so far, in call order
    params,     \* the Parameters of build_formula
    solver,     \* the external solver: its clauses and its assignment
    deque,      \* the bit vectors at hand: the VecDeque of add_tree
    parse       \* parse_output and SatSolver::solve: what they read and hold

vars == <<formula, pc, sink, calls, params, solver, deque, parse>>

\* ------------------------------------------------------------------ bounds

\* Side of the board where the encoder runs (the program: 9).
Side == 2
\* Highest inference_levels explored.
MaxLevels == 3
\* Highest givens parameter explored.
MaxGivens == 10
\* Free use of the builder: calls made, variables allocated, clause width.
MaxCalls == 5
MaxVars == 2
MaxWidth == 3
\* One gate on its own: variables allocated, inputs of the gate, literals
\* of an at-most-one constraint, unit clauses added after the gate.
MaxGateVars == 3
MaxGateInputs == 2
MaxAtMostOne == 3
MaxAsserts == 2
\* Bit vectors on their own: vectors summed by one add_tree, trees made.
MaxInputs == 8
\* Most variables the inputs of a full adder on its own are drawn from.
MaxAdderInputs == 3
\* Most lines of solver output read, and most parts of a v line.
MaxLines == 3
MaxParts == 2
MaxTrees == 2
\* Width of usize in the model (the program: 64 or 32).
UsizeBits == 16
\* The latest write to the sink that may fail.
MaxFailedWrite == 3

\* ----------------------------------------------------------------- helpers

RECURSIVE FoldSeq(_, _, _)
\* The builder acc after Op(acc, s[1]), Op(acc, s[2]), ...: a for loop over
\* s, which an abort ends.
FoldSeq(Op(_, _), acc, s) ==
    IF s = <<>> \/ acc.panicked
    THEN acc
    ELSE FoldSeq(Op, Op(acc, Head(s)), Tail(s))

\* The sequence s with its elements evaluated.
Tuple(s) == s \o <<>>

RECURSIVE Concat(_)
Concat(ss) == IF ss = <<>> THEN <<>> ELSE Head(ss) \o Concat(Tail(ss))

SelectIdx(s, Test(_)) ==
    LET F[i \in 0..Len(s)] ==
            IF i = 0 THEN <<>>
            ELSE IF Test(s[i]) THEN Append(F[i - 1], s[i]) ELSE F[i - 1]
    IN  F[Len(s)]

Abs(x) == IF x < 0 THEN -x ELSE x

Pow2(n) == 2 ^ n

\* ------------------------------------------------------- literal, variable

\* Variable::as_positive: the literal of a variable with positive polarity.
as_positive(variable) == variable

\* Literal::negated.
negated(literal) == -literal

\* Literal::variable.
variable_of(literal) == Abs(literal)

\* ------------------------------------------------------------ clause store

\* TaggedVariableFormulaBuilder::new.  panicked is the process having
\* aborted inside a builder call.
NewBuilder ==
    [highest_variable_index |-> 0,
     tagged_variables |-> <<>>,
     unit |-> <<>>,
     binary |-> <<>>,
     wide |-> <<>>,
     panicked |-> FALSE]

Panic(f) == [f EXCEPT !.panicked = TRUE]

\* VariableCounter::new_variable; the variable returned is LastVariable of
\* the result.
new_variable(f) ==
    [f EXCEPT !.highest_variable_index = @ + 1]

LastVariable(f) == f.highest_variable_index

HasTag(f, tag) == tag \in DOMAIN f.tagged_variables

\* get_variable allocating on every lookup.
get_variable_AlwaysFresh(f, tag) ==
    LET g == new_variable(f)
    IN  [g EXCEPT !.tagged_variables =
            [t \in DOMAIN @ \cup {tag} |->
                IF t = tag THEN LastVariable(g) ELSE @[t]]]

\* TaggedVariableFormulaBuilder::get_variable; the variable returned is
\* TaggedVariable(result, tag).
get_variable(f, tag) ==
    IF HasTag(f, tag)
    THEN f
    ELSE LET g == new_variable(f)
         IN  [g EXCEPT !.tagged_variables = @ @@ (tag :> LastVariable(g))]

TaggedVariable(f, tag) == f.tagged_variables[tag]

add_unit_clause(f, literal) ==
    [f EXCEPT !.unit = Append(@, <<literal>>)]

add_binary_clause(f, a, b) ==
    [f EXCEPT !.binary = Append(@, <<a, b>>)]

\* add_clause sending two literals to the wide bucket.
add_clause_TwoIsWide(f, literals) ==
    CASE Len(literals) = 0 -> Panic(f)
      [] Len(literals) = 1 -> add_unit_clause(f, literals[1])
      [] OTHER -> [f EXCEPT !.wide = Append(@, literals)]

add_clause(f, literals) ==
    CASE Len(literals) = 0 -> Panic(f)
      [] Len(literals) = 1 -> add_unit_clause(f, literals[1])
      [] Len(literals) = 2 -> add_binary_clause(f, literals[1], literals[2])
      [] OTHER -> [f EXCEPT !.wide = Append(@, literals)]

variable_count(f) == f.highest_variable_index

\* clause_count without the wide bucket.
clause_count_NoWide(f) == Len(f.unit) + Len(f.binary)

clause_count(f) == Len(f.unit) + Len(f.binary) + Len(f.wide)

\* write_dimacs_fragment of UnitClause, BinaryClause and WideClause: the
\* literal indices, then the token 0.
write_dimacs_fragment(clause) == clause \o <<0>>

HeaderLine(f) ==
    <<"p", "cnf", f.highest_variable_index, clause_count(f)>>

\* write_dimacs with the binary bucket written before the unit bucket.
write_dimacs_BinaryFirst(f) ==
    <<HeaderLine(f)>>
        \o [i \in 1..Len(f.binary) |-> write_dimacs_fragment(f.binary[i])]
        \o [i \in 1..Len(f.unit) |-> write_dimacs_fragment(f.unit[i])]
        \o [i \in 1..Len(f.wide) |-> write_dimacs_fragment(f.wide[i])]

\* A sink whose write number fails_at fails, having taken the first partial
\* tokens of the buffer: w.write_all(buf).
write_all(w, buf) ==
    IF w.writes + 1 = w.fails_at
    THEN [w EXCEPT !.writes = @ + 1,
                   !.error = TRUE,
                   !.lines = IF w.partial > 0
                             THEN Append(@, SubSeq(buf, 1, w.partial))
                             ELSE @]
    ELSE [w EXCEPT !.writes = @ + 1, !.lines = Append(@, buf)]

\* The writes of write_dimacs with no ? after write_all.
RECURSIVE WriteEach_ErrorsDropped(_, _)
WriteEach_ErrorsDropped(w, bufs) ==
    IF bufs = <<>>
    THEN w
    ELSE WriteEach_ErrorsDropped(write_all(w, Head(bufs)), Tail(bufs))

\* The writes of write_dimacs, in order; the ? after each write_all returns
\* at the first error.
RECURSIVE WriteEach(_, _)
WriteEach(w, bufs) ==
    IF bufs = <<>> \/ w.error
    THEN w
    ELSE WriteEach(write_all(w, Head(bufs)), Tail(bufs))

\* write_dimacs: the lines written, the header first.
write_dimacs(f) ==
    <<HeaderLine(f)>>
        \o [i \in 1..Len(f.unit) |-> write_dimacs_fragment(f.unit[i])]
        \o [i \in 1..Len(f.binary) |-> write_dimacs_fragment(f.binary[i])]
        \o [i \in 1..Len(f.wide) |-> write_dimacs_fragment(f.wide[i])]

\* write_dimacs to a sink that fails: what the sink holds, and the error.
write_dimacs_to(w, f) == WriteEach(w, write_dimacs(f))

\* A new sink whose write number fails_at fails.
FailingSink(fails_at, partial) ==
    [lines |-> <<>>, writes |-> 0, fails_at |-> fails_at,
     partial |-> partial, error |-> FALSE]

\* -------------------------------------------------------------- gate layer

\* add_logical_equivalence_constraint with one implication only.
add_logical_equivalence_constraint_OneWay(f, a, b) ==
    add_binary_clause(f, -a, b)

add_logical_equivalence_constraint(f, a, b) ==
    add_binary_clause(add_binary_clause(f, -a, b), a, -b)

\* The binary clause of one input of an OR gate.
OrInputClause(output, f, input) == add_binary_clause(f, -input, output)

\* add_logical_or_constraint whose closing clause leaves the inputs out.
add_logical_or_constraint_BareOutput(f, output, inputs) ==
    LET PerInput(g, input) == OrInputClause(output, g, input)
    IN  add_clause(FoldSeq(PerInput, f, inputs), <<-output>>)

add_logical_or_constraint(f, output, inputs) ==
    LET PerInput(g, input) == OrInputClause(output, g, input)
    IN  add_clause(FoldSeq(PerInput, f, inputs), <<-output>> \o inputs)

\* AndInputClause with the implication turned round.
AndInputClause_Converse(output, f, input) == add_binary_clause(f, output, -input)

\* The binary clause of one input of an AND gate.
AndInputClause(output, f, input) == add_binary_clause(f, -output, input)

add_logical_and_constraint(f, output, inputs) ==
    LET PerInput(g, input) == AndInputClause(output, g, input)
    IN  add_clause(FoldSeq(PerInput, f, inputs),
                   [i \in 1..Len(inputs) |-> -inputs[i]] \o <<output>>)

add_logical_xor_constraint(f, output, a, b) ==
    LET f1 == add_clause(f, <<a, b, -output>>)
        f2 == add_clause(f1, <<a, -b, output>>)
        f3 == add_clause(f2, <<-a, b, output>>)
    IN  add_clause(f3, <<-a, -b, -output>>)

\* ------------------------------------------------------- cardinality layer

\* The index pairs <<i, j>>, i < j <= n, in the order of the two loops.
IndexPairs(n) ==
    Concat([i \in 1..(n - 1) |-> [k \in 1..(n - i) |-> <<i, i + k>>]])

\* literals[..literals.len() - 1] of an empty slice aborts.
add_at_most_one_of_constraint(f, literals) ==
    IF Len(literals) = 0
    THEN Panic(f)
    ELSE LET PerPair(g, p) ==
                 add_binary_clause(g, -literals[p[1]], -literals[p[2]])
         IN  FoldSeq(PerPair, f, IndexPairs(Len(literals)))

\* -------------------------------------------------------- arithmetic layer

add_half_adder_constraint(f, a, b, sum, carry) ==
    add_logical_and_constraint(
        add_logical_xor_constraint(f, sum, a, b), carry, <<a, b>>)

\* The full adder with its carry the AND of the two half-adder carries.
add_full_adder_constraint_AndCarry(f, a, b, c, sum, carry) ==
    LET f1 == new_variable(f)
        half_adder_1_sum == as_positive(LastVariable(f1))
        f2 == new_variable(f1)
        half_adder_1_carry == as_positive(LastVariable(f2))
        f3 == new_variable(f2)
        half_adder_2_carry == as_positive(LastVariable(f3))
        f4 == add_half_adder_constraint(f3, a, b, half_adder_1_sum,
                                        half_adder_1_carry)
        f5 == add_half_adder_constraint(f4, c, half_adder_1_sum, sum,
                                        half_adder_2_carry)
    IN  add_logical_and_constraint(
            f5, carry, <<half_adder_1_carry, half_adder_2_carry>>)

add_full_adder_constraint(f, a, b, c, sum, carry) ==
    LET f1 == new_variable(f)
        half_adder_1_sum == as_positive(LastVariable(f1))
        f2 == new_variable(f1)
        half_adder_1_carry == as_positive(LastVariable(f2))
        f3 == new_variable(f2)
        half_adder_2_carry == as_positive(LastVariable(f3))
        f4 == add_half_adder_constraint(f3, a, b, half_adder_1_sum,
                                        half_adder_1_carry)
        f5 == add_half_adder_constraint(f4, c, half_adder_1_sum, sum,
                                        half_adder_2_carry)
    IN  add_logical_or_constraint(
            f5, carry, <<half_adder_1_carry, half_adder_2_carry>>)

\* -------------------------------------------------------------- bit vector

\* u32::next_power_of_two(x).trailing_zeros(): the least k with 2^k >= x.
RECURSIVE WidthFrom(_, _)
WidthFrom(x, k) == IF Pow2(k) >= x THEN k ELSE WidthFrom(x, k + 1)

\* The exponent of the power of two below x where x is not one itself.
NextPowerOfTwoTrailingZeros_Floor(x) == WidthFrom(x + 1, 0) - 1

NextPowerOfTwoTrailingZeros(x) == WidthFrom(x, 0)

\* A range start..end is <<start, end>>.
from_literal(literal) == [range |-> <<0, 2>>, bits |-> <<literal>>]

\* AddRange with the exclusive ends added as they are.
AddRange_EndsAdded(a, b) ==
    <<a.range[1] + b.range[1], a.range[2] + b.range[2]>>

\* The range of a + b.
AddRange(a, b) ==
    <<a.range[1] + b.range[1], (a.range[2] - 1) + (b.range[2] - 1) + 1>>

\* FetchBits leaving the previous carry behind.
FetchBits_NoCarry(a, b, i, prev_carry) ==
    (IF i < Len(a.bits) THEN <<a.bits[i + 1]>> ELSE <<>>)
        \o (IF i < Len(b.bits) THEN <<b.bits[i + 1]>> ELSE <<>>)

\* The bits fetched at position i (from 0): of a, of b, the previous carry
\* (0: none).
FetchBits(a, b, i, prev_carry) ==
    (IF i < Len(a.bits) THEN <<a.bits[i + 1]>> ELSE <<>>)
        \o (IF i < Len(b.bits) THEN <<b.bits[i + 1]>> ELSE <<>>)
        \o (IF prev_carry # 0 THEN <<prev_carry>> ELSE <<>>)

\* One iteration of the loop of BitVector::add on the state
\* [formula, c_bits, prev_carry].
AddStep(a, b, st) ==
    LET bits == FetchBits(a, b, Len(st.c_bits), st.prev_carry)
        f1 == new_variable(st.formula)
        sum == as_positive(LastVariable(f1))
        f2 == new_variable(f1)
        carry == as_positive(LastVariable(f2))
    IN  CASE Len(bits) = 1 ->
               [formula |-> st.formula,
                c_bits |-> Append(st.c_bits, bits[1]),
                prev_carry |-> 0]
          [] Len(bits) = 2 ->
               [formula |-> add_half_adder_constraint(f2, bits[1], bits[2],
                                                      sum, carry),
                c_bits |-> Append(st.c_bits, sum),
                prev_carry |-> carry]
          [] Len(bits) = 3 ->
               [formula |-> add_full_adder_constraint(f2, bits[1], bits[2],
                                                      bits[3], sum, carry),
                c_bits |-> Append(st.c_bits, sum),
                prev_carry |-> carry]
          [] OTHER ->
               [formula |-> Panic(st.formula),
                c_bits |-> Append(st.c_bits, 0),
                prev_carry |-> 0]

RECURSIVE AddLoop(_, _, _, _)
AddLoop(a, b, c_len, st) ==
    IF Len(st.c_bits) < c_len /\ ~st.formula.panicked
    THEN AddLoop(a, b, c_len, AddStep(a, b, st))
    ELSE st

\* BitVector::add with a result one bit wider than its range needs.
BitVector_add_OneWider(f, a, b) ==
    LET c_range == AddRange(a, b)
        c_len == NextPowerOfTwoTrailingZeros(c_range[2]) + 1
        st == AddLoop(a, b, c_len,
                      [formula |-> f, c_bits |-> <<>>, prev_carry |-> 0])
    IN  [formula |-> st.formula,
         value |-> [range |-> c_range, bits |-> st.c_bits]]

\* BitVector::add: [formula |-> the builder after it, value |-> a + b].
BitVector_add(f, a, b) ==
    LET c_range == AddRange(a, b)
        c_len == NextPowerOfTwoTrailingZeros(c_range[2])
        st == AddLoop(a, b, c_len,
                      [formula |-> f, c_bits |-> <<>>, prev_carry |-> 0])
    IN  [formula |-> st.formula,
         value |-> [range |-> c_range, bits |-> st.c_bits]]

\* AddTreeStep with the sum pushed to the front.
AddTreeStep_PushFront(f, bit_vectors) ==
    LET r == BitVector_add(f, bit_vectors[1], bit_vectors[2])
    IN  [formula |-> r.formula,
         bit_vectors |-> <<r.value>> \o Tail(Tail(bit_vectors))]

\* One iteration of the loop of add_tree: the front two vectors are popped
\* and their sum is pushed to the back.
AddTreeStep(f, bit_vectors) ==
    LET r == BitVector_add(f, bit_vectors[1], bit_vectors[2])
    IN  [formula |-> r.formula,
         bit_vectors |-> Append(Tail(Tail(bit_vectors)), r.value)]

\* BitVector::add_tree on a non-empty queue.
RECURSIVE add_tree(_, _)
add_tree(f, bit_vectors) ==
    IF Len(bit_vectors) > 1
    THEN LET st == AddTreeStep(f, bit_vectors)
         IN  add_tree(st.formula, st.bit_vectors)
    ELSE [formula |-> f, value |-> bit_vectors[1]]

\* ----------------------------------------------------------- Sudoku domain

\* The 9 of bounded_integer_1_through_9.
ProgramSide == 9

\* The side in force: the program's where the functions of the domain are
\* exercised on their own, the bound Side where the encoder runs and the
\* models of its formula are enumerated.
BoardSide == IF pc = "board" THEN ProgramSide ELSE Side

\* The box height: the 3 of the program, the largest divisor of the side whose
\* square is at most it.  A box is BoxRows rows by BoxCols columns and a
\* band holds BoxesPerBand boxes.
BoxRows ==
    CHOOSE h \in 1..BoardSide :
        /\ h * h <= BoardSide /\ BoardSide % h = 0
        /\ \A k \in (h + 1)..BoardSide :
               ~(k * k <= BoardSide /\ BoardSide % k = 0)

BoxCols == BoardSide \div BoxRows

BoxesPerBand == BoardSide \div BoxCols

\* Row::values, Col::values, Digit::values, Box::values: 1..=9 in order.
Values == [i \in 1..BoardSide |-> i]

\* Cell::values: row by row.  A cell is <<row, col>>.
CellValues ==
    Concat([row \in 1..BoardSide |->
               [col \in 1..BoardSide |-> <<row, col>>]])

\* Cell::box_.
box_(cell) ==
    ((cell[1] - 1) \div BoxRows) * BoxesPerBand
        + ((cell[2] - 1) \div BoxCols) + 1

\* Box::rows, Box::cols, Box::cells.
Box_rows(box) ==
    LET base_row == ((box - 1) \div BoxesPerBand) * BoxRows + 1
    IN  [i \in 1..BoxRows |-> base_row + i - 1]

\* Box_cols with the base column taken from the band of the box.
Box_cols_OfBand(box) ==
    LET base_col == ((box - 1) \div BoxesPerBand) * BoxCols + 1
    IN  [i \in 1..BoxCols |-> base_col + i - 1]

Box_cols(box) ==
    LET base_col == ((box - 1) % BoxesPerBand) * BoxCols + 1
    IN  [i \in 1..BoxCols |-> base_col + i - 1]

Box_cells(box) ==
    Concat([i \in 1..BoxRows |->
               [j \in 1..BoxCols |-> <<Box_rows(box)[i], Box_cols(box)[j]>>]])

\* sees_other without the boxes.
sees_other_RowOrCol(self, rhs) ==
    IF self[1] = rhs[1] /\ self[2] = rhs[2]
    THEN FALSE
    ELSE IF self[1] = rhs[1] \/ self[2] = rhs[2] THEN TRUE ELSE FALSE

\* Cell::sees_other.
sees_other(self, rhs) ==
    IF self[1] = rhs[1] /\ self[2] = rhs[2]
    THEN FALSE
    ELSE IF self[1] = rhs[1] \/ self[2] = rhs[2] \/ box_(self) = box_(rhs)
         THEN TRUE
         ELSE FALSE

\* VariableKind.
Placed(row, col, digit) == <<"Placed", row, col, digit>>
Given(row, col) == <<"Given", row, col>>
Forced(row, col, digit, level) == <<"Forced", row, col, digit, level>>
Eliminated(row, col, digit, level) == <<"Eliminated", row, col, digit, level>>

\* --------------------------------------------------------- problem encoder

\* The positive literals of the variables of tags.
LiteralsOf(f, tags) ==
    Tuple([i \in 1..Len(tags) |-> as_positive(TaggedVariable(f, tags[i]))])

\* ExactlyOneOf without its at-least-one clause.
ExactlyOneOf_NoWideClause(f, tags) ==
    LET f1 == FoldSeq(get_variable, f, tags)
    IN  add_at_most_one_of_constraint(f1, LiteralsOf(f1, tags))

\* The body of the four placement loops: the variables of the tags, at most
\* one of them, at least one of them.
ExactlyOneOf(f, tags) ==
    LET f1 == FoldSeq(get_variable, f, tags)
        literals == LiteralsOf(f1, tags)
    IN  add_clause(add_at_most_one_of_constraint(f1, literals), literals)

\* The tags of each placement loop, in loop order.
CellGroups ==
    Concat([row \in 1..Side |->
               [col \in 1..Side |->
                   [digit \in 1..Side |-> Placed(row, col, digit)]]])

RowGroups ==
    Concat([row \in 1..Side |->
               [digit \in 1..Side |->
                   [col \in 1..Side |-> Placed(row, col, digit)]]])

ColGroups ==
    Concat([col \in 1..Side |->
               [digit \in 1..Side |->
                   [row \in 1..Side |-> Placed(row, col, digit)]]])

BoxGroups ==
    Concat([box \in 1..Side |->
               [digit \in 1..Side |->
                   [i \in 1..Len(Box_cells(box)) |->
                       Placed(Box_cells(box)[i][1], Box_cells(box)[i][2],
                              digit)]]])

\* One digit per cell; each digit once in a row, in a column, in a box.
PlacementWellFormedness(f) ==
    FoldSeq(ExactlyOneOf, f,
            CellGroups \o RowGroups \o ColGroups \o BoxGroups)

GivenTags ==
    [i \in 1..Len(CellValues) |-> Given(CellValues[i][1], CellValues[i][2])]

\* The width the program asserts of the count of givens: its 7, the width
\* of a sum of Side * Side one-bit vectors.
GivenCountBits == NextPowerOfTwoTrailingZeros(Side * Side + 1)

\* FixGivenBit with the bits of the count taken from the high end.
FixGivenBit_Reversed(f, given_count, givens, bit) ==
    add_unit_clause(f,
        IF (givens \div Pow2(bit)) % 2 = 0
        THEN -given_count.bits[Len(given_count.bits) - bit]
        ELSE given_count.bits[Len(given_count.bits) - bit])

\* The unit clause fixing one bit of the count to that bit of givens.
FixGivenBit(f, given_count, givens, bit) ==
    add_unit_clause(f,
        IF (givens \div Pow2(bit)) % 2 = 0
        THEN -given_count.bits[bit + 1]
        ELSE given_count.bits[bit + 1])

\* Count the given digits, fix their number.
GivenCountConstraint(f, givens) ==
    LET f1 == FoldSeq(get_variable, f, GivenTags)
        given_bits ==
            Tuple([i \in 1..Len(GivenTags) |->
                from_literal(as_positive(TaggedVariable(f1, GivenTags[i])))])
        r == add_tree(f1, given_bits)
        PerBit(g, bit) == FixGivenBit(g, r.value, givens, bit)
    IN  IF Len(r.value.bits) # GivenCountBits
        THEN Panic(r.formula)
        ELSE FoldSeq(PerBit, r.formula,
                     [i \in 1..GivenCountBits |-> i - 1])

\* The pairs <<cell, digit>> in loop order.
CellDigits ==
    Concat([i \in 1..Len(CellValues) |->
               [digit \in 1..Side |-> <<CellValues[i], digit>>]])

\* Level0Forced with every placement forced, given or not.
Level0Forced_IgnoresGiven(f, cell, digit) ==
    LET f1 == get_variable(f, Placed(cell[1], cell[2], digit))
        placed == as_positive(TaggedVariable(f1, Placed(cell[1], cell[2], digit)))
        f2 == get_variable(f1, Given(cell[1], cell[2]))
        f3 == get_variable(f2, Forced(cell[1], cell[2], digit, 0))
        forced == as_positive(TaggedVariable(f3, Forced(cell[1], cell[2], digit, 0)))
    IN  add_logical_and_constraint(f3, forced, <<placed>>)

\* At level 0, the given placements are forced ...
Level0Forced(f, cell, digit) ==
    LET f1 == get_variable(f, Placed(cell[1], cell[2], digit))
        placed == as_positive(TaggedVariable(f1, Placed(cell[1], cell[2], digit)))
        f2 == get_variable(f1, Given(cell[1], cell[2]))
        given == as_positive(TaggedVariable(f2, Given(cell[1], cell[2])))
        f3 == get_variable(f2, Forced(cell[1], cell[2], digit, 0))
        forced == as_positive(TaggedVariable(f3, Forced(cell[1], cell[2], digit, 0)))
    IN  add_logical_and_constraint(f3, forced, <<placed, given>>)

\* ... and nothing is eliminated.
Level0Eliminated(f, cell, digit) ==
    LET f1 == get_variable(f, Eliminated(cell[1], cell[2], digit, 0))
        eliminated ==
            as_positive(TaggedVariable(f1, Eliminated(cell[1], cell[2], digit, 0)))
    IN  add_unit_clause(f1, -eliminated)

Level0Step(f, cd) ==
    Level0Eliminated(Level0Forced(f, cd[1], cd[2]), cd[1], cd[2])

Level0BaseCase(f) == FoldSeq(Level0Step, f, CellDigits)

\* A justification that is the AND of the variables of tags: a fresh
\* anonymous variable tied to them.
AndJustification(f, tags) ==
    LET f1 == FoldSeq(get_variable, f, tags)
        literals == LiteralsOf(f1, tags)
        f2 == new_variable(f1)
        justification == as_positive(LastVariable(f2))
    IN  [formula |-> add_logical_and_constraint(f2, justification, literals),
         literal |-> justification]

\* The tags of the rules, for a placement and the previous level.
NakedSingleTags(cell, digit, prev_level) ==
    LET others == SelectIdx(Values, LAMBDA other_digit : digit # other_digit)
    IN  [i \in 1..Len(others) |->
            Eliminated(cell[1], cell[2], others[i], prev_level)]

HiddenSingleRowTags(cell, digit, prev_level) ==
    LET others == SelectIdx(Values, LAMBDA other_col : cell[2] # other_col)
    IN  [i \in 1..Len(others) |->
            Eliminated(cell[1], others[i], digit, prev_level)]

HiddenSingleColTags(cell, digit, prev_level) ==
    LET others == SelectIdx(Values, LAMBDA other_row : cell[1] # other_row)
    IN  [i \in 1..Len(others) |->
            Eliminated(others[i], cell[2], digit, prev_level)]

HiddenSingleBoxTags(cell, digit, prev_level) ==
    LET others == SelectIdx(Box_cells(box_(cell)),
                            LAMBDA other_cell : cell # other_cell)
    IN  [i \in 1..Len(others) |->
            Eliminated(others[i][1], others[i][2], digit, prev_level)]

CellExclusionTags(cell, digit, prev_level) ==
    LET others == SelectIdx(Values, LAMBDA other_digit : digit # other_digit)
    IN  [i \in 1..Len(others) |->
            Forced(cell[1], cell[2], others[i], prev_level)]

PeerExclusionTags(cell, digit, prev_level) ==
    LET others == SelectIdx(CellValues,
                            LAMBDA other_cell : sees_other(cell, other_cell))
    IN  [i \in 1..Len(others) |->
            Forced(others[i][1], others[i][2], digit, prev_level)]

\* ForcingJustifications without the persistence justification.
ForcingJustifications_NoPersistence(f, p, cell, digit, prev_level) ==
    LET naked == AndJustification(f, NakedSingleTags(cell, digit, prev_level))
        f2 == IF p.naked_single THEN naked.formula ELSE f
        row == AndJustification(f2, HiddenSingleRowTags(cell, digit, prev_level))
        col == AndJustification(row.formula,
                                HiddenSingleColTags(cell, digit, prev_level))
        box == AndJustification(col.formula,
                                HiddenSingleBoxTags(cell, digit, prev_level))
    IN  [formula |-> IF p.hidden_single THEN box.formula ELSE f2,
         literals |->
            (IF p.naked_single THEN <<naked.literal>> ELSE <<>>)
                \o (IF p.hidden_single
                    THEN <<row.literal, col.literal, box.literal>>
                    ELSE <<>>)]

\* The forcing justifications of a placement at a level:
\* [formula, literals].
ForcingJustifications(f, p, cell, digit, prev_level) ==
    LET f1 == get_variable(f, Forced(cell[1], cell[2], digit, prev_level))
        persistence ==
            as_positive(TaggedVariable(f1, Forced(cell[1], cell[2], digit, prev_level)))
        naked == AndJustification(f1, NakedSingleTags(cell, digit, prev_level))
        f2 == IF p.naked_single THEN naked.formula ELSE f1
        row == AndJustification(f2, HiddenSingleRowTags(cell, digit, prev_level))
        col == AndJustification(row.formula,
                                HiddenSingleColTags(cell, digit, prev_level))
        box == AndJustification(col.formula,
                                HiddenSingleBoxTags(cell, digit, prev_level))
    IN  [formula |-> IF p.hidden_single THEN box.formula ELSE f2,
         literals |->
            <<persistence>>
                \o (IF p.naked_single THEN <<naked.literal>> ELSE <<>>)
                \o (IF p.hidden_single
                    THEN <<row.literal, col.literal, box.literal>>
                    ELSE <<>>)]

\* The eliminating justifications of a placement at a level:
\* [formula, literals].
EliminatingJustifications(f, cell, digit, prev_level) ==
    LET tags == <<Eliminated(cell[1], cell[2], digit, prev_level)>>
                    \o CellExclusionTags(cell, digit, prev_level)
                    \o PeerExclusionTags(cell, digit, prev_level)
        f1 == FoldSeq(get_variable, f, tags)
    IN  [formula |-> f1, literals |-> LiteralsOf(f1, tags)]

\* Tie a tagged variable to the logical OR of the justifications.
TieToOr(f, tag, justifications) ==
    LET f1 == get_variable(f, tag)
    IN  add_logical_or_constraint(f1, as_positive(TaggedVariable(f1, tag)),
                                  justifications)

\* The body of the loop over levels 1..inference_levels - 1, on
\* cdl = <<cell, digit, level>>.
InductiveStep(p, f, cdl) ==
    LET cell == cdl[1]
        digit == cdl[2]
        level == cdl[3]
        prev_level == level - 1
        \* The persistence justifications are pushed first, both of them.
        f0 == get_variable(
                  get_variable(f, Forced(cell[1], cell[2], digit, prev_level)),
                  Eliminated(cell[1], cell[2], digit, prev_level))
        forcing == ForcingJustifications(f0, p, cell, digit, prev_level)
        eliminating ==
            EliminatingJustifications(forcing.formula, cell, digit, prev_level)
        f1 == TieToOr(eliminating.formula,
                      Forced(cell[1], cell[2], digit, level), forcing.literals)
    IN  TieToOr(f1, Eliminated(cell[1], cell[2], digit, level),
                eliminating.literals)

CellDigitLevels(inference_levels) ==
    Concat([i \in 1..Len(CellDigits) |->
               [k \in 1..(inference_levels - 1) |->
                   <<CellDigits[i][1], CellDigits[i][2], k>>]])

InductiveLayer(f, p) ==
    LET Step(g, cdl) == InductiveStep(p, g, cdl)
    IN  FoldSeq(Step, f, CellDigitLevels(p.inference_levels))

\* TerminalStep tying the forced placements only.
TerminalStep_ForcedOnly(last_level, f, cd) ==
    LET cell == cd[1]
        digit == cd[2]
        f1 == get_variable(f, Forced(cell[1], cell[2], digit, last_level))
        forced ==
            as_positive(TaggedVariable(f1, Forced(cell[1], cell[2], digit, last_level)))
        f2 == get_variable(f1, Eliminated(cell[1], cell[2], digit, last_level))
        f3 == get_variable(f2, Placed(cell[1], cell[2], digit))
        placed == as_positive(TaggedVariable(f3, Placed(cell[1], cell[2], digit)))
    IN  add_logical_equivalence_constraint(f3, forced, placed)

\* TerminalStep with what is eliminated only kept off the board: what is
\* off the board need not be eliminated.
TerminalStep_EliminatedOneWay(last_level, f, cd) ==
    LET cell == cd[1]
        digit == cd[2]
        f1 == get_variable(f, Forced(cell[1], cell[2], digit, last_level))
        forced ==
            as_positive(TaggedVariable(f1, Forced(cell[1], cell[2], digit, last_level)))
        f2 == get_variable(f1, Eliminated(cell[1], cell[2], digit, last_level))
        eliminated ==
            as_positive(TaggedVariable(f2, Eliminated(cell[1], cell[2], digit, last_level)))
        f3 == get_variable(f2, Placed(cell[1], cell[2], digit))
        placed == as_positive(TaggedVariable(f3, Placed(cell[1], cell[2], digit)))
    IN  add_binary_clause(
            add_logical_equivalence_constraint(f3, forced, placed),
            -eliminated, -placed)

\* The last iteration of forced and eliminated placements must match the
\* board.
TerminalStep(last_level, f, cd) ==
    LET cell == cd[1]
        digit == cd[2]
        f1 == get_variable(f, Forced(cell[1], cell[2], digit, last_level))
        forced ==
            as_positive(TaggedVariable(f1, Forced(cell[1], cell[2], digit, last_level)))
        f2 == get_variable(f1, Eliminated(cell[1], cell[2], digit, last_level))
        eliminated ==
            as_positive(TaggedVariable(f2, Eliminated(cell[1], cell[2], digit, last_level)))
        f3 == get_variable(f2, Placed(cell[1], cell[2], digit))
        placed == as_positive(TaggedVariable(f3, Placed(cell[1], cell[2], digit)))
    IN  add_logical_equivalence_constraint(
            add_logical_equivalence_constraint(f3, forced, placed),
            eliminated, -placed)

\* a - b on usize.  Below zero it aborts in a build with overflow checks
\* and wraps round in a build without.
UsizeSub(a, b, overflow_checks) ==
    IF a >= b
    THEN [value |-> a - b, panicked |-> FALSE]
    ELSE IF overflow_checks
         THEN [value |-> 0, panicked |-> TRUE]
         ELSE [value |-> a - b + Pow2(UsizeBits), panicked |-> FALSE]

\* The terminal tie; params.inference_levels - 1 is evaluated in the first
\* iteration, before the builder is touched.
TerminalTie(f, p, overflow_checks) ==
    LET last_level == UsizeSub(p.inference_levels, 1, overflow_checks)
        Step(g, cd) == TerminalStep(last_level.value, g, cd)
    IN  IF last_level.panicked
        THEN Panic(f)
        ELSE FoldSeq(Step, f, CellDigits)

\* ------------------------------------------------------------------ solver

\* The solver reads the DIMACS lines: the header, then one clause a line,
\* each ended by the token 0.
ParseDimacs(lines) ==
    [variables |-> lines[1][3],
     clauses |-> Tuple([k \in 1..(Len(lines) - 1) |->
                           SubSeq(lines[k + 1], 1, Len(lines[k + 1]) - 1)])]

\* The clauses each variable occurs in.
Occurrences(variables, clauses) ==
    Tuple([v \in 1..variables |->
              {k \in 1..Len(clauses) :
                  \E i \in 1..Len(clauses[k]) : Abs(clauses[k][i]) = v}])

\* An assignment gives a variable 1 (true), -1 (false) or 0 (not yet).
LitValue(asg, l) == IF l > 0 THEN asg[l] ELSE -asg[-l]

ClauseSatisfied(asg, c) == \E i \in 1..Len(c) : LitValue(asg, c[i]) = 1

OpenLiterals(asg, c) == {c[i] : i \in {j \in 1..Len(c) : LitValue(asg, c[j]) = 0}}

\* Unit propagation from the clauses ks, to the fixed point:
\* [conflict, asg].
RECURSIVE Propagate(_, _, _, _)
Propagate(clauses, occ, asg, ks) ==
    LET open == {k \in ks : ~ClauseSatisfied(asg, clauses[k])}
        units == UNION {OpenLiterals(asg, clauses[k]) :
                           k \in {j \in open :
                               Cardinality(OpenLiterals(asg, clauses[j])) = 1}}
        asg2 == Tuple([v \in DOMAIN asg |->
                          IF v \in units THEN 1
                          ELSE IF -v \in units THEN -1 ELSE asg[v]])
    IN  IF \/ \E k \in open : OpenLiterals(asg, clauses[k]) = {}
           \/ \E l \in units : -l \in units
        THEN [conflict |-> TRUE, asg |-> asg]
        ELSE IF units = {}
             THEN [conflict |-> FALSE, asg |-> asg]
             ELSE Propagate(clauses, occ, asg2,
                            UNION {occ[Abs(l)] : l \in units})

Complete(asg) == \A v \in DOMAIN asg : asg[v] # 0

\* decisions: the literals decided so far; none at the root of the search.
IdleSolver ==
    [clauses |-> <<>>, occ |-> <<>>, assignment |-> <<>>, decisions |-> <<>>,
     status |-> "idle"]

SolverStatus(r) ==
    IF r.conflict THEN "conflict"
    ELSE IF Complete(r.asg) THEN "sat" ELSE "searching"

\* The solver after reading its input.
SolverLoad(lines) ==
    LET cnf == ParseDimacs(lines)
        occ == Occurrences(cnf.variables, cnf.clauses)
        r == Propagate(cnf.clauses, occ,
                       Tuple([v \in 1..cnf.variables |-> 0]),
                       1..Len(cnf.clauses))
    IN  [clauses |-> cnf.clauses, occ |-> occ, assignment |-> r.asg,
         decisions |-> <<>>, status |-> SolverStatus(r)]

\* The solver after deciding its first open variable to be value.
SolverBranch(s, value) ==
    LET v == CHOOSE u \in DOMAIN s.assignment :
                 /\ s.assignment[u] = 0
                 /\ \A w \in 1..(u - 1) : s.assignment[w] # 0
        r == Propagate(s.clauses, s.occ, [s.assignment EXCEPT ![v] = value],
                       s.occ[v])
    IN  [s EXCEPT !.assignment = r.asg,
                  !.decisions = Append(@, v * value),
                  !.status = SolverStatus(r)]

\* ------------------------------------------------------ the solver's output

\* A line of the solver's output is [prefix, parts]: its first character
\* and the split_ascii_whitespace of the rest.  A part of a v line is what
\* its text where it is a word, and what i32::from_str_radix makes of it:
\* [word, ok, value].

I32Min == -2147483647 - 1

I32(n) == [word |-> "", ok |-> TRUE, value |-> n]

Word(w) == [word |-> w, ok |-> FALSE, value |-> 0]

\* str::to_lowercase on the words of solution lines.
to_lowercase(word) ==
    CASE word = "SATISFIABLE" -> "satisfiable"
      [] word = "UNSATISFIABLE" -> "unsatisfiable"
      [] word = "UNKNOWN" -> "unknown"
      [] OTHER -> word

\* Nothing read yet: solution = None, variables_done = false.
IdleParse ==
    [child_stdout |-> <<>>,
     solution |-> "None",
     assignments |-> <<>>,
     variables_done |-> FALSE,
     outcome |-> "reading",
     error |-> "",
     exit_code |-> 0,
     solved |-> ""]

ParseErr(p, message) == [p EXCEPT !.outcome = "Err", !.error = message]

\* A panic of the task of parse_output; SatSolver::solve gets a JoinError.
ParsePanic(p) == [p EXCEPT !.outcome = "panicked"]

\* A solution line after to_lowercase, of the solution named.
SolutionLine(p, solution) ==
    IF p.solution # "None"
    THEN ParseErr(p, "multiple solution lines")
    ELSE [p EXCEPT !.solution = solution, !.assignments = <<>>]

\* A line with the prefix s: the singleton of its parts is unwrapped.
ParseS(p, line) ==
    IF Len(line.parts) # 1
    THEN ParsePanic(p)
    ELSE CASE to_lowercase(line.parts[1].word) = "satisfiable" ->
                SolutionLine(p, "Satisfiable")
           [] to_lowercase(line.parts[1].word) = "unsatisfiable" ->
                SolutionLine(p, "Unsatisfiable")
           [] OTHER -> ParseErr(p, "unsupported solution line")

\* One part of a v line.
ParsePart(p, part) ==
    IF p.variables_done
    THEN ParseErr(p, "variable assignments after the zero terminator")
    ELSE IF ~part.ok
    THEN ParseErr(p, "bad literal")
    ELSE IF part.value = 0
    THEN [p EXCEPT !.variables_done = TRUE]
    ELSE IF part.value = I32Min
    THEN ParseErr(p, "literal out of range")
    ELSE [p EXCEPT !.assignments =
            [v \in DOMAIN @ \cup {Abs(part.value)} |->
                IF v = Abs(part.value) THEN part.value > 0 ELSE @[v]]]

\* The parts of a v line in order; an error returns at once.
RECURSIVE ParseParts(_, _)
ParseParts(p, parts) ==
    IF parts = <<>> \/ p.outcome # "reading"
    THEN p
    ELSE ParseParts(ParsePart(p, Head(parts)), Tail(parts))

\* A line with the prefix v.
ParseV(p, line) ==
    IF p.solution = "Satisfiable"
    THEN ParseParts(p, line.parts)
    ELSE ParseErr(p, "variable assignments before solution line")

\* The line is echoed to stdout; a failed write is returned.
Echo(p, echo_ok) ==
    IF p.outcome = "reading" /\ ~echo_ok THEN ParseErr(p, "io") ELSE p

\* The body of the loop of parse_output on one line.
ParseLine(p, line, echo_ok) ==
    LET q == [p EXCEPT !.child_stdout = Append(@, line)]
    IN  CASE line.prefix = "s" -> Echo(ParseS(q, line), echo_ok)
          [] line.prefix = "v" -> ParseV(q, line)
          [] OTHER -> Echo(q, echo_ok)

\* ParseEnd without the check of the zero terminator.
ParseEnd_NoTerminatorCheck(p) ==
    IF p.solution = "None"
    THEN ParsePanic(p)
    ELSE [p EXCEPT !.outcome = "Ok"]

\* After the loop of parse_output: the end of the output.
ParseEnd(p) ==
    IF p.solution = "Satisfiable" /\ ~p.variables_done
    THEN ParseErr(p, "variable assignments not terminated with a zero literal")
    ELSE IF p.solution = "None"
    THEN ParsePanic(p)
    ELSE [p EXCEPT !.outcome = "Ok"]

\* The match of SatSolver::solve on the exit code and the solution;
\* exit_code -1 is no code (the child was ended by a signal).
SolveMatch(p, exit_code) ==
    IF \/ exit_code = 10 /\ p.solution = "Satisfiable"
       \/ exit_code = 20 /\ p.solution = "Unsatisfiable"
    THEN "Ok"
    ELSE "Err"

\* SatSolver::solve after the child has exited: solution.await?? and the
\* match.
Solve(p, exit_code, wait_ok) ==
    [p EXCEPT !.exit_code = exit_code,
              !.solved = IF ~wait_ok \/ p.outcome # "Ok"
                         THEN "Err"
                         ELSE SolveMatch(p, exit_code)]

\* ----------------------------------------------------------------- actions

\* Parameters explored.
ParameterSets ==
    [givens : 0..MaxGivens,
     inference_levels : 0..MaxLevels,
     naked_single : BOOLEAN,
     hidden_single : BOOLEAN]

NoParameters ==
    [givens |-> 0, inference_levels |-> 1,
     naked_single |-> FALSE, hidden_single |-> FALSE]

\* Free use of the builder: the tags and the literal lists offered.
ApiTags == {Given(1, col) : col \in 1..Side}

Literals(f) ==
    {l \in (-f.highest_variable_index)..f.highest_variable_index : l # 0}

NextLiteral(f, l) ==
    IF l = f.highest_variable_index THEN -f.highest_variable_index
    ELSE IF l = -1 THEN 1 ELSE l + 1

RECURSIVE LiteralRun(_, _, _)
LiteralRun(f, l, w) ==
    IF w = 0 THEN <<>> ELSE <<l>> \o LiteralRun(f, NextLiteral(f, l), w - 1)

LiteralLists(f) ==
    {<<>>} \cup {LiteralRun(f, l, w) : l \in Literals(f), w \in 1..MaxWidth}

Running == pc = "api" /\ ~formula.panicked /\ Len(calls) < MaxCalls

Called(op, arg, ret) == calls' = Append(calls, [op |-> op, arg |-> arg, ret |-> ret])

NewVariable ==
    /\ Running
    /\ formula.highest_variable_index < MaxVars
    /\ formula' = new_variable(formula)
    /\ Called("new_variable", <<>>, LastVariable(formula'))
    /\ UNCHANGED <<pc, sink, params, solver, deque, parse>>

GetVariable ==
    /\ Running
    /\ \E tag \in ApiTags :
        /\ HasTag(formula, tag) \/ formula.highest_variable_index < MaxVars
        /\ formula' = get_variable(formula, tag)
        /\ Called("get_variable", tag, TaggedVariable(formula', tag))
    /\ UNCHANGED <<pc, sink, params, solver, deque, parse>>

AddClause ==
    /\ Running
    /\ \E literals \in LiteralLists(formula) :
        /\ formula' = add_clause(formula, literals)
        /\ Called("add_clause", literals, 0)
    /\ UNCHANGED <<pc, sink, params, solver, deque, parse>>

AddUnitClause ==
    /\ Running
    /\ \E literal \in Literals(formula) :
        /\ formula' = add_unit_clause(formula, literal)
        /\ Called("add_unit_clause", <<literal>>, 0)
    /\ UNCHANGED <<pc, sink, params, solver, deque, parse>>

AddBinaryClause ==
    /\ Running
    /\ \E a \in Literals(formula) :
        LET b == NextLiteral(formula, a)
        IN  /\ formula' = add_binary_clause(formula, a, b)
            /\ Called("add_binary_clause", <<a, b>>, 0)
    /\ UNCHANGED <<pc, sink, params, solver, deque, parse>>

\* write_dimacs to a fresh sink.
WriteDimacs ==
    /\ Running
    /\ sink' = write_dimacs(formula)
    /\ Called("write_dimacs", <<>>, 0)
    /\ UNCHANGED <<formula, pc, params, solver, deque, parse>>

\* build_formula, section by section.
EncodePlacement ==
    /\ pc = "start" /\ ~formula.panicked
    /\ formula' = PlacementWellFormedness(formula)
    /\ pc' = "placement"
    /\ UNCHANGED <<sink, calls, params, solver, deque, parse>>

EncodeGivenCount ==
    /\ pc = "placement" /\ ~formula.panicked
    /\ formula' = GivenCountConstraint(formula, params.givens)
    /\ pc' = "given_count"
    /\ UNCHANGED <<sink, calls, params, solver, deque, parse>>

EncodeLevel0 ==
    /\ pc = "given_count" /\ ~formula.panicked
    /\ formula' = Level0BaseCase(formula)
    /\ pc' = "level0"
    /\ UNCHANGED <<sink, calls, params, solver, deque, parse>>

EncodeInductive ==
    /\ pc = "level0" /\ ~formula.panicked
    /\ formula' = InductiveLayer(formula, params)
    /\ pc' = "inductive"
    /\ UNCHANGED <<sink, calls, params, solver, deque, parse>>

EncodeTerminal ==
    /\ pc = "inductive" /\ ~formula.panicked
    /\ \E overflow_checks \in BOOLEAN :
        formula' = TerminalTie(formula, params, overflow_checks)
    /\ pc' = "terminal"
    /\ UNCHANGED <<sink, calls, params, solver, deque, parse>>

EncodeWrite ==
    /\ pc = "terminal" /\ ~formula.panicked
    /\ sink' = write_dimacs(formula)
    /\ pc' = "written"
    /\ UNCHANGED <<formula, calls, params, solver, deque, parse>>

\* A write of write_dimacs fails: build_formula returns the error.
EncodeWriteFails ==
    /\ pc = "terminal" /\ ~formula.panicked
    /\ \E fails_at \in 1..MaxFailedWrite :
        /\ fails_at <= Len(write_dimacs(formula))
        /\ \E partial \in 0..(Len(write_dimacs(formula)[fails_at]) - 1) :
            LET w == write_dimacs_to(FailingSink(fails_at, partial), formula)
            IN  /\ w.error
                /\ sink' = w.lines
    /\ pc' = "failed"
    /\ UNCHANGED <<formula, calls, params, solver, deque, parse>>

\* SatSolver::solve: the input is closed and the solver runs.
SolverRead ==
    /\ pc = "written"
    /\ solver' = SolverLoad(sink)
    /\ pc' = "solving"
    /\ UNCHANGED <<formula, sink, calls, params, deque, parse>>

SolverDecide ==
    /\ pc = "solving" /\ solver.status = "searching"
    /\ \E value \in {1, -1} :
        solver' = SolverBranch(solver, value)
    /\ UNCHANGED <<formula, pc, sink, calls, params, deque, parse>>

Init ==
    /\ formula = NewBuilder
    /\ pc = "api"
    /\ sink = <<>>
    /\ calls = <<>>
    /\ params = NoParameters
    /\ solver = IdleSolver
    /\ deque = <<>>
    /\ parse = IdleParse

Next ==
    \/ NewVariable
    \/ GetVariable
    \/ AddClause
    \/ AddUnitClause
    \/ AddBinaryClause
    \/ WriteDimacs

\* Free use of the builder.
Spec == Init /\ [][Next]_vars

InitEncode ==
    /\ formula = NewBuilder
    /\ pc = "start"
    /\ sink = <<>>
    /\ calls = <<>>
    /\ params \in ParameterSets
    /\ solver = IdleSolver
    /\ deque = <<>>
    /\ parse = IdleParse

NextEncode ==
    \/ EncodePlacement
    \/ EncodeGivenCount
    \/ EncodeLevel0
    \/ EncodeInductive
    \/ EncodeTerminal
    \/ EncodeWrite
    \/ EncodeWriteFails
    \/ SolverRead
    \/ SolverDecide

\* build_formula, then the solver on what it wrote.
SpecEncode == InitEncode /\ [][NextEncode]_vars

\* ------------------------------------------------ bit vectors on their own

\* The width the encoder asserts of the count of givens.
AssertedGivenWidth == 7

\* n one-bit vectors of fresh variables: the given_bits of build_formula.
GivenBits(f, n) ==
    [formula |-> [f EXCEPT !.highest_variable_index = @ + n],
     bit_vectors |->
        Tuple([i \in 1..n |->
            from_literal(as_positive(f.highest_variable_index + i))])]

\* What the loop of BitVector::add(a, b) did, an entry for each iteration:
\* the bits it fetched, the bit it pushed and the carry it left.
AddIterations(f, a, b) ==
    LET st0 == [formula |-> f, c_bits |-> <<>>, prev_carry |-> 0]
        n == Len(BitVector_add(f, a, b).value.bits)
    IN  Tuple([k \in 1..n |->
            LET before == AddLoop(a, b, k - 1, st0)
                after == AddLoop(a, b, k, st0)
            IN  [op |-> "add_iteration",
                 arg |-> FetchBits(a, b, k - 1, before.prev_carry),
                 ret |-> [c_bit |-> after.c_bits[k],
                          prev_carry |-> after.prev_carry]]])

\* BitVector::add(a, b) is recorded, its iterations first.
AddCalled(a, b) ==
    calls' = calls \o AddIterations(formula, a, b)
                \o <<[op |-> "add", arg |-> <<a, b>>,
                      ret |-> BitVector_add(formula, a, b).value]>>

\* The literals of the variables allocated so far.
BitLiterals == {l \in (-formula.highest_variable_index)..formula.highest_variable_index : l # 0}

\* The calls of add_tree made so far, and of BitVector::add.
TreeCalls == {i \in 1..Len(calls) : calls[i].op = "add_tree"}

AddCalls == {i \in 1..Len(calls) : calls[i].op = "add"}

BitsFromLiteral ==
    /\ pc = "bits"
    /\ Len(deque) < MaxInputs
    /\ formula' = new_variable(formula)
    /\ deque' = Append(deque, from_literal(as_positive(LastVariable(formula'))))
    /\ UNCHANGED <<pc, sink, calls, params, solver, parse>>

\* add_tree is called with the vectors at hand; with one vector its loop has
\* nothing to do.
BitsAddTree ==
    /\ pc = "bits"
    /\ Len(deque) >= 1
    /\ Called("add_tree", deque, 0)
    /\ pc' = IF Len(deque) > 1 THEN "tree" ELSE "summed"
    /\ UNCHANGED <<formula, sink, params, solver, deque, parse>>

\* One iteration of the loop of add_tree; the BitVector::add it makes is
\* recorded.
BitsTreeStep ==
    /\ pc = "tree"
    /\ LET st == AddTreeStep(formula, deque)
       IN  /\ formula' = st.formula
           /\ deque' = st.bit_vectors
           /\ AddCalled(deque[1], deque[2])
           /\ pc' = IF Len(st.bit_vectors) > 1 THEN "tree" ELSE "summed"
    /\ UNCHANGED <<sink, params, solver, parse>>

\* The caller keeps the sum and collects the vectors of another tree.
BitsAgain ==
    /\ pc = "summed"
    /\ Cardinality(TreeCalls) < MaxTrees
    /\ pc' = "bits"
    /\ deque' = <<>>
    /\ UNCHANGED <<formula, sink, calls, params, solver, parse>>

\* BitVector::add of two sums made before.
BitsAdd ==
    /\ pc = "summed"
    /\ \E i, j \in AddCalls :
        LET r == BitVector_add(formula, calls[i].ret, calls[j].ret)
        IN  /\ formula' = r.formula
            /\ deque' = <<r.value>>
            /\ AddCalled(calls[i].ret, calls[j].ret)
    /\ pc' = "added"
    /\ UNCHANGED <<sink, params, solver, parse>>

\* The count of the givens of build_formula: add_tree of one one-bit vector
\* for each of the 81 cells, and the assertion on its width.
BitsGivenCount ==
    /\ pc = "bits" /\ deque = <<>> /\ calls = <<>>
    /\ LET given_bits == GivenBits(formula, ProgramSide * ProgramSide)
           r == add_tree(given_bits.formula, given_bits.bit_vectors)
       IN  /\ formula' = IF Len(r.value.bits) # AssertedGivenWidth
                         THEN Panic(r.formula)
                         ELSE r.formula
           /\ deque' = <<r.value>>
           /\ Called("add_tree", given_bits.bit_vectors, r.value)
    /\ pc' = "counted"
    /\ UNCHANGED <<sink, params, solver, parse>>

\* add_half_adder_constraint on literals at hand, with a fresh sum and
\* carry as BitVector::add makes them.
BitsHalfAdder ==
    /\ pc = "bits" /\ calls = <<>>
    /\ \E a, b \in BitLiterals :
        LET f1 == new_variable(formula)
            sum == as_positive(LastVariable(f1))
            f2 == new_variable(f1)
            carry == as_positive(LastVariable(f2))
        IN  /\ formula' = add_half_adder_constraint(f2, a, b, sum, carry)
            /\ Called("add_half_adder_constraint", <<a, b, sum, carry>>, 0)
    /\ pc' = "adder"
    /\ UNCHANGED <<sink, params, solver, deque, parse>>

\* add_full_adder_constraint likewise.
BitsFullAdder ==
    /\ pc = "bits" /\ calls = <<>>
    /\ Len(deque) <= MaxAdderInputs
    /\ \E a, b, c \in BitLiterals :
        LET f1 == new_variable(formula)
            sum == as_positive(LastVariable(f1))
            f2 == new_variable(f1)
            carry == as_positive(LastVariable(f2))
        IN  /\ formula' = add_full_adder_constraint(f2, a, b, c, sum, carry)
            /\ Called("add_full_adder_constraint", <<a, b, c, sum, carry>>, 0)
    /\ pc' = "adder"
    /\ UNCHANGED <<sink, params, solver, deque, parse>>

InitBits ==
    /\ formula = NewBuilder
    /\ pc = "bits"
    /\ sink = <<>>
    /\ calls = <<>>
    /\ params = NoParameters
    /\ solver = IdleSolver
    /\ deque = <<>>
    /\ parse = IdleParse

NextBits ==
    \/ BitsFromLiteral
    \/ BitsAddTree
    \/ BitsTreeStep
    \/ BitsAgain
    \/ BitsAdd
    \/ BitsGivenCount
    \/ BitsHalfAdder
    \/ BitsFullAdder

\* Bit vectors made by from_literal, summed by add_tree and by add.
SpecBits == InitBits /\ [][NextBits]_vars

\* ------------------------------------------- the Sudoku domain on its own

\* The cells of the board.
BoardCells == {CellValues[i] : i \in 1..Len(CellValues)}

BoardSeesOther ==
    /\ pc = "board" /\ calls = <<>>
    /\ \E self, rhs \in BoardCells :
        Called("sees_other", <<self, rhs>>, sees_other(self, rhs))
    /\ UNCHANGED <<formula, pc, sink, params, solver, deque, parse>>

\* The cells a cell sees: Cell::values() filtered by sees_other.
BoardSeen ==
    /\ pc = "board" /\ calls = <<>>
    /\ \E self \in BoardCells :
        Called("seen", self, {rhs \in BoardCells : sees_other(self, rhs)})
    /\ UNCHANGED <<formula, pc, sink, params, solver, deque, parse>>

\* cell.box_(), and the rows, cols and cells of that box.
BoardBox ==
    /\ pc = "board" /\ calls = <<>>
    /\ \E cell \in BoardCells :
        Called("box_", cell,
               [box |-> box_(cell),
                rows |-> Tuple(Box_rows(box_(cell))),
                cols |-> Tuple(Box_cols(box_(cell))),
                cells |-> Box_cells(box_(cell))])
    /\ UNCHANGED <<formula, pc, sink, params, solver, deque, parse>>

InitBoard ==
    /\ formula = NewBuilder
    /\ pc = "board"
    /\ sink = <<>>
    /\ calls = <<>>
    /\ params = NoParameters
    /\ solver = IdleSolver
    /\ deque = <<>>
    /\ parse = IdleParse

NextBoard ==
    \/ BoardSeesOther
    \/ BoardSeen
    \/ BoardBox

\* The functions of the 9 by 9 board, applied to its cells.
SpecBoard == InitBoard /\ [][NextBoard]_vars

\* ------------------------------------------------- one gate on its own

\* The lists of at most n literals of the builder's variables.
LiteralListsUpTo(f, n) ==
    UNION {[1..k -> Literals(f)] : k \in 0..n}

GateNewVariable ==
    /\ pc = "gate"
    /\ formula.highest_variable_index < MaxGateVars
    /\ formula' = new_variable(formula)
    /\ UNCHANGED <<pc, sink, calls, params, solver, deque, parse>>

\* A gate is recorded with its output and its inputs; an equivalence of a
\* and b is the gate of output a and input b.
GateEquivalence ==
    /\ pc = "gate"
    /\ \E a, b \in Literals(formula) :
        /\ formula' = add_logical_equivalence_constraint(formula, a, b)
        /\ Called("add_logical_equivalence_constraint",
                  [output |-> a, inputs |-> <<b>>], 0)
    /\ pc' = "gated"
    /\ UNCHANGED <<sink, params, solver, deque, parse>>

GateOr ==
    /\ pc = "gate"
    /\ \E output \in Literals(formula) :
       \E inputs \in LiteralListsUpTo(formula, MaxGateInputs) :
        /\ formula' = add_logical_or_constraint(formula, output, Tuple(inputs))
        /\ Called("add_logical_or_constraint",
                  [output |-> output, inputs |-> Tuple(inputs)], 0)
    /\ pc' = "gated"
    /\ UNCHANGED <<sink, params, solver, deque, parse>>

GateAnd ==
    /\ pc = "gate"
    /\ \E output \in Literals(formula) :
       \E inputs \in LiteralListsUpTo(formula, MaxGateInputs) :
        /\ formula' = add_logical_and_constraint(formula, output, Tuple(inputs))
        /\ Called("add_logical_and_constraint",
                  [output |-> output, inputs |-> Tuple(inputs)], 0)
    /\ pc' = "gated"
    /\ UNCHANGED <<sink, params, solver, deque, parse>>

GateXor ==
    /\ pc = "gate"
    /\ \E output, a, b \in Literals(formula) :
        /\ formula' = add_logical_xor_constraint(formula, output, a, b)
        /\ Called("add_logical_xor_constraint",
                  [output |-> output, inputs |-> <<a, b>>], 0)
    /\ pc' = "gated"
    /\ UNCHANGED <<sink, params, solver, deque, parse>>

GateAtMostOne ==
    /\ pc = "gate"
    /\ \E literals \in LiteralListsUpTo(formula, MaxAtMostOne) :
        /\ formula' = add_at_most_one_of_constraint(formula, Tuple(literals))
        /\ Called("add_at_most_one_of_constraint",
                  [output |-> 0, inputs |-> Tuple(literals)], 0)
    /\ pc' = "gated"
    /\ UNCHANGED <<sink, params, solver, deque, parse>>

\* A unit clause added next to the gate.
GateAssert ==
    /\ pc = "gated" /\ ~formula.panicked
    /\ Len(calls) < 1 + MaxAsserts
    /\ \E literal \in Literals(formula) :
        /\ formula' = add_unit_clause(formula, literal)
        /\ Called("add_unit_clause", <<literal>>, 0)
    /\ UNCHANGED <<pc, sink, params, solver, deque, parse>>

GateWrite ==
    /\ pc = "gated" /\ ~formula.panicked
    /\ sink' = write_dimacs(formula)
    /\ pc' = "written"
    /\ UNCHANGED <<formula, calls, params, solver, deque, parse>>

InitGate ==
    /\ formula = NewBuilder
    /\ pc = "gate"
    /\ sink = <<>>
    /\ calls = <<>>
    /\ params = NoParameters
    /\ solver = IdleSolver
    /\ deque = <<>>
    /\ parse = IdleParse

NextGate ==
    \/ GateNewVariable
    \/ GateEquivalence
    \/ GateOr
    \/ GateAnd
    \/ GateXor
    \/ GateAtMostOne
    \/ GateAssert
    \/ GateWrite
    \/ SolverRead
    \/ SolverDecide

\* One gate or one at-most-one constraint, unit clauses, then the solver.
SpecGate == InitGate /\ [][NextGate]_vars

\* ------------------------------------------- the solver's output, on its own

SolutionWords == {"SATISFIABLE", "satisfiable", "UNSATISFIABLE", "UNKNOWN"}

Parts == {I32(1), I32(-2), I32(0), I32(I32Min), Word("UNKNOWN")}

PartLists == UNION {[1..n -> Parts] : n \in 0..MaxParts}

\* The lines the solver may write.
OutputLines ==
    {[prefix |-> "s", parts |-> <<Word(w)>>] : w \in SolutionWords}
        \cup {[prefix |-> "s", parts |-> <<>>],
              [prefix |-> "s", parts |-> <<I32(1)>>],
              [prefix |-> "s",
               parts |-> <<Word("SATISFIABLE"), Word("UNKNOWN")>>],
              [prefix |-> "c", parts |-> <<>>]}
        \cup {[prefix |-> "v", parts |-> ps] : ps \in PartLists}

ExitCodes == {10, 20, 0, 1, -1}

\* parse_output reads a line.
ParseReadLine ==
    /\ pc = "parsing"
    /\ Len(parse.child_stdout) < MaxLines
    /\ \E line \in OutputLines : \E echo_ok \in BOOLEAN :
        LET p == ParseLine(parse, line, echo_ok)
        IN  /\ parse' = p
            /\ pc' = IF p.outcome = "reading" THEN "parsing" ELSE "parsed"
    /\ UNCHANGED <<formula, sink, calls, params, solver, deque>>

\* lines.next_line() fails.
ParseReadFails ==
    /\ pc = "parsing"
    /\ parse' = ParseErr(parse, "io")
    /\ pc' = "parsed"
    /\ UNCHANGED <<formula, sink, calls, params, solver, deque>>

\* The output ends.
ParseEndOfOutput ==
    /\ pc = "parsing"
    /\ parse' = ParseEnd(parse)
    /\ pc' = "parsed"
    /\ UNCHANGED <<formula, sink, calls, params, solver, deque>>

\* SatSolver::solve returns.
SolveReturns ==
    /\ pc = "parsed"
    /\ \E exit_code \in ExitCodes : \E wait_ok \in BOOLEAN :
        parse' = Solve(parse, exit_code, wait_ok)
    /\ pc' = "solved"
    /\ UNCHANGED <<formula, sink, calls, params, solver, deque>>

InitParse ==
    /\ formula = NewBuilder
    /\ pc = "parsing"
    /\ sink = <<>>
    /\ calls = <<>>
    /\ params = NoParameters
    /\ solver = IdleSolver
    /\ deque = <<>>
    /\ parse = IdleParse

NextParse ==
    \/ ParseReadLine
    \/ ParseReadFails
    \/ ParseEndOfOutput
    \/ SolveReturns

\* The output of the solver read by parse_output, then SatSolver::solve.
SpecParse == InitParse /\ [][NextParse]_vars

\* ------------------------------------------------- models of the formula

\* The solver answered with a satisfying assignment of what was emitted.
IsModel == pc = "solving" /\ solver.status = "sat"

\* Unit propagation alone refutes what was emitted: it has no model.
Refuted ==
    pc = "solving" /\ solver.decisions = <<>> /\ solver.status = "conflict"

\* The value of a tagged variable in the model, read as visualize_solution
\* reads it: assignments[&variables[&tag]].
Holds(tag) == solver.assignment[TaggedVariable(formula, tag)] = 1

Cells == {<<row, col>> : row \in 1..Side, col \in 1..Side}

Digits == 1..Side

ExactlyOneHolds(tags) == Cardinality({tag \in tags : Holds(tag)}) = 1

\* The parameters of the minimal puzzle: every cell given, no rule.
MinimalPuzzle(levels) ==
    /\ params.givens = Side * Side
    /\ params.inference_levels = levels
    /\ ~params.naked_single /\ ~params.hidden_single

EveryCellGivenAndForced ==
    \A cell \in Cells :
        /\ Holds(Given(cell[1], cell[2]))
        /\ \A digit \in Digits :
               Holds(Forced(cell[1], cell[2], digit, 0))
                   <=> Holds(Placed(cell[1], cell[2], digit))

\* The inference circuit at a level equals the solution.
EqualsSolutionAt(level) ==
    \A cell \in Cells : \A digit \in Digits :
        /\ Holds(Forced(cell[1], cell[2], digit, level))
               <=> Holds(Placed(cell[1], cell[2], digit))
        /\ Holds(Eliminated(cell[1], cell[2], digit, level))
               <=> ~Holds(Placed(cell[1], cell[2], digit))

\* ------------------------------------------------------------------ claims

\* C1 as stated: with givens = Side * Side (the program: 81),
\* inference_levels = 1 and no rule, the formula is satisfiable and in every
\* model every cell is given and Forced at level 0 equals Placed.
C1_AsStated ==
    MinimalPuzzle(1) =>
        /\ ~Refuted
        /\ IsModel => EveryCellGivenAndForced

\* C1, amended: with inference_levels = 1 the formula has no model (the
\* terminal tie asks Eliminated at level 0 to equal not Placed, and level 0
\* eliminates nothing); with inference_levels = 2 it has models, and in each
\* every cell is given and Forced at level 0 equals Placed.
C1_MinimalPuzzle ==
    /\ MinimalPuzzle(1) /\ pc = "solving" => Refuted
    /\ MinimalPuzzle(2) /\ pc = "solving" => ~Refuted
    /\ MinimalPuzzle(2) /\ IsModel => EveryCellGivenAndForced

C1_Witness == MinimalPuzzle(2) /\ IsModel /\ EveryCellGivenAndForced

\* C2: in every model exactly one Placed variable is true in every cell,
\* and for every digit exactly one in every row, column and box.
C2_ExactlyOnePlacement ==
    IsModel =>
        /\ \A cell \in Cells :
               ExactlyOneHolds({Placed(cell[1], cell[2], digit) :
                                    digit \in Digits})
        /\ \A digit \in Digits :
            /\ \A row \in 1..Side :
                   ExactlyOneHolds({Placed(row, col, digit) : col \in 1..Side})
            /\ \A col \in 1..Side :
                   ExactlyOneHolds({Placed(row, col, digit) : row \in 1..Side})
            /\ \A box \in 1..Side :
                   ExactlyOneHolds({Placed(cell[1], cell[2], digit) :
                                        cell \in {c \in Cells : box_(c) = box}})

C2_Witness ==
    /\ IsModel
    /\ params.givens < Side * Side
    /\ params.naked_single /\ params.hidden_single

\* C3: in every model the number of cells given equals the low
\* GivenCountBits bits of givens (the program: givens mod 128).
GivenCells == {cell \in Cells : Holds(Given(cell[1], cell[2]))}

C3_GivenCount ==
    IsModel => Cardinality(GivenCells) = params.givens % Pow2(GivenCountBits)

C3_Witness ==
    /\ IsModel
    /\ params.givens >= Pow2(GivenCountBits)
    /\ Cardinality(GivenCells) = params.givens - Pow2(GivenCountBits)

\* C4 as stated: for inference_levels >= 2, in no model does the inference
\* circuit equal the solution one level before the last.
C4_AsStated ==
    IsModel /\ params.inference_levels >= 2
        => ~EqualsSolutionAt(params.inference_levels - 2)

\* C4, amended: for inference_levels >= 2, in every model the circuit
\* equals the solution at the last level, and it may equal it one level
\* earlier: only for inference_levels = 2 is that excluded.  The depth is
\* bounded from above, not from below.
C4_DepthBoundedAbove ==
    IsModel /\ params.inference_levels >= 2
        => /\ EqualsSolutionAt(params.inference_levels - 1)
           /\ params.inference_levels = 2 => ~EqualsSolutionAt(0)

C4_Witness ==
    /\ IsModel
    /\ params.inference_levels >= 3
    /\ EqualsSolutionAt(params.inference_levels - 2)
    /\ EqualsSolutionAt(params.inference_levels - 1)

\* C5: in every model what is forced or eliminated at a level stays so at
\* the next, whichever rules are enabled.
C5_Monotonic ==
    IsModel =>
        \A cell \in Cells : \A digit \in Digits :
            \A level \in 0..(params.inference_levels - 2) :
                /\ Holds(Forced(cell[1], cell[2], digit, level))
                       => Holds(Forced(cell[1], cell[2], digit, level + 1))
                /\ Holds(Eliminated(cell[1], cell[2], digit, level))
                       => Holds(Eliminated(cell[1], cell[2], digit, level + 1))

\* A model of three levels or more with something forced at level 0,
\* something forced only later and something eliminated at level 1.
C5_Witness ==
    /\ IsModel
    /\ params.inference_levels >= 3
    /\ \E cell \in Cells : \E digit \in Digits :
           /\ Holds(Forced(cell[1], cell[2], digit, 0))
           /\ Holds(Forced(cell[1], cell[2], digit, 1))
    /\ \E cell \in Cells : \E digit \in Digits :
           /\ ~Holds(Forced(cell[1], cell[2], digit, 0))
           /\ Holds(Forced(cell[1], cell[2], digit, 2))
    /\ \E cell \in Cells : \E digit \in Digits :
           /\ Holds(Eliminated(cell[1], cell[2], digit, 1))
           /\ Holds(Eliminated(cell[1], cell[2], digit, 2))

\* C6: in every model Forced at level 0 is Placed and Given, and nothing is
\* eliminated at level 0.
C6_Level0 ==
    IsModel =>
        \A cell \in Cells : \A digit \in Digits :
            /\ Holds(Forced(cell[1], cell[2], digit, 0))
                   <=> (Holds(Placed(cell[1], cell[2], digit))
                            /\ Holds(Given(cell[1], cell[2])))
            /\ ~Holds(Eliminated(cell[1], cell[2], digit, 0))

\* A model with a placement given, and so forced at level 0, and a placement
\* not given, and so not forced.
C6_Witness ==
    /\ IsModel
    /\ \E cell \in Cells : \E digit \in Digits :
           Holds(Forced(cell[1], cell[2], digit, 0))
    /\ \E cell \in Cells : \E digit \in Digits :
           /\ Holds(Placed(cell[1], cell[2], digit))
           /\ ~Holds(Given(cell[1], cell[2]))
           /\ ~Holds(Forced(cell[1], cell[2], digit, 0))

\* ------------------------------------------- the builder, against its calls

\* The last call made was write_dimacs: sink holds what it wrote.
Wrote == calls # <<>> /\ calls[Len(calls)].op = "write_dimacs"

IsUnitCall(c) ==
    \/ c.op = "add_unit_clause"
    \/ c.op = "add_clause" /\ Len(c.arg) = 1

IsBinaryCall(c) ==
    \/ c.op = "add_binary_clause"
    \/ c.op = "add_clause" /\ Len(c.arg) = 2

IsWideCall(c) == c.op = "add_clause" /\ Len(c.arg) >= 3

IsAddCall(c) == IsUnitCall(c) \/ IsBinaryCall(c) \/ IsWideCall(c)

\* The literal lists of the calls that pass Test, in call order.
ClausesCalled(Test(_)) ==
    LET sel == SelectIdx(calls, Test)
    IN  Tuple([i \in 1..Len(sel) |-> sel[i].arg])

\* The clause lines of the sink, each without its closing 0.
ClausesWritten ==
    Tuple([i \in 1..(Len(sink) - 1) |->
        SubSeq(sink[i + 1], 1, Len(sink[i + 1]) - 1)])

\* The i-th call allocated a variable: new_variable, or get_variable of a
\* tag no earlier call looked up.
IsAllocation(i) ==
    \/ calls[i].op = "new_variable"
    \/ /\ calls[i].op = "get_variable"
       /\ \A j \in 1..(i - 1) :
            ~(calls[j].op = "get_variable" /\ calls[j].arg = calls[i].arg)

Allocations(n) == {i \in 1..n : IsAllocation(i)}

\* C7: write_dimacs writes the header p cnf V C with V = variable_count()
\* and C = clause_count(), then exactly C clause lines, each closed by 0, and
\* every literal written has a magnitude in 1..V; C counts the clauses added
\* and V the variables allocated.
C7_DimacsWellFormed ==
    Wrote =>
        /\ sink[1] = <<"p", "cnf", variable_count(formula), clause_count(formula)>>
        /\ Len(sink) - 1 = clause_count(formula)
        /\ clause_count(formula) = Len(SelectIdx(calls, IsAddCall))
        /\ variable_count(formula) = Cardinality(Allocations(Len(calls)))
        /\ \A i \in 2..Len(sink) :
            /\ sink[i][Len(sink[i])] = 0
            /\ \A j \in 1..(Len(sink[i]) - 1) :
                Abs(sink[i][j]) \in 1..variable_count(formula)

C7_Witness ==
    /\ Wrote
    /\ variable_count(formula) >= 2
    /\ Len(formula.wide) > 0
    /\ Len(formula.binary) > 0
    /\ \E i \in 2..Len(sink) : \E j \in 1..(Len(sink[i]) - 1) :
        Abs(sink[i][j]) = variable_count(formula)

\* C8: write_dimacs writes the unit clauses, then the binary clauses, then
\* the wide clauses, each bucket in the order of the calls that added its
\* clauses, however those calls were interleaved.
C8_BucketOrder ==
    Wrote =>
        ClausesWritten = ClausesCalled(IsUnitCall)
                            \o ClausesCalled(IsBinaryCall)
                            \o ClausesCalled(IsWideCall)

\* A unit clause added after a wide or binary one, and after a different
\* unit clause.
C8_Witness ==
    /\ Wrote
    /\ \E i, j, k \in 1..Len(calls) :
        /\ i < j /\ j < k
        /\ IsUnitCall(calls[i])
        /\ IsWideCall(calls[j]) \/ IsBinaryCall(calls[j])
        /\ IsUnitCall(calls[k])
        /\ calls[i].arg # calls[k].arg

\* C9: after every call, the allocating calls returned 1, 2, ..., V in call
\* order, V being the counter (so a first lookup of a tag advances it by one
\* and a repeated lookup leaves it alone); a repeated lookup returns what the
\* first returned; new_variable never returns a tagged variable.
C9_DenseAllocation ==
    /\ variable_count(formula) = Cardinality(Allocations(Len(calls)))
    /\ \A i \in Allocations(Len(calls)) :
        calls[i].ret = Cardinality(Allocations(i))
    /\ \A i, j \in 1..Len(calls) :
        calls[i].op = "get_variable" /\ calls[j].op = "get_variable"
            /\ calls[i].arg = calls[j].arg
                => calls[i].ret = calls[j].ret
    /\ \A i \in 1..Len(calls) :
        calls[i].op = "new_variable" =>
            /\ \A tag \in DOMAIN formula.tagged_variables :
                formula.tagged_variables[tag] # calls[i].ret
            /\ \A j \in 1..Len(calls) :
                calls[j].op = "get_variable" => calls[j].ret # calls[i].ret

\* A tag looked up, another variable allocated, the tag looked up again.
C9_Witness ==
    \E i, j, k \in 1..Len(calls) :
        /\ i < j /\ j < k
        /\ calls[i].op = "get_variable"
        /\ calls[j].op = "new_variable"
        /\ calls[k].op = "get_variable"
        /\ calls[k].arg = calls[i].arg
        /\ calls[k].ret = calls[i].ret
        /\ variable_count(formula) = 2

\* C10: after every call the unit, binary and wide buckets hold the literal
\* lists of the calls of their width (add_clause of one, of two, of three or
\* more literals), so every wide clause has three literals or more; an
\* add_clause of no literals aborts, and is the only call that does, the
\* buckets and the counter being those of the calls before it.
C10_DispatchByWidth ==
    /\ formula.unit = ClausesCalled(IsUnitCall)
    /\ formula.binary = ClausesCalled(IsBinaryCall)
    /\ formula.wide = ClausesCalled(IsWideCall)
    /\ \A i \in 1..Len(formula.wide) : Len(formula.wide[i]) >= 3
    /\ \A i \in 1..Len(formula.unit) : Len(formula.unit[i]) = 1
    /\ \A i \in 1..Len(formula.binary) : Len(formula.binary[i]) = 2
    /\ formula.panicked <=>
            /\ calls # <<>>
            /\ calls[Len(calls)].op = "add_clause"
            /\ calls[Len(calls)].arg = <<>>
    /\ variable_count(formula) = Cardinality(Allocations(Len(calls)))

\* add_clause of one, of two and of three literals, then of none.
C10_Witness ==
    /\ formula.panicked
    /\ \E i, j, k \in 1..Len(calls) :
        /\ calls[i].op = "add_clause" /\ Len(calls[i].arg) = 1
        /\ calls[j].op = "add_clause" /\ Len(calls[j].arg) = 2
        /\ calls[k].op = "add_clause" /\ Len(calls[k].arg) = 3
    /\ Len(formula.unit) = 1 /\ Len(formula.binary) = 1 /\ Len(formula.wide) = 1

\* ------------------------------------------------------- gates, on their own

GateOps ==
    {"add_logical_equivalence_constraint", "add_logical_or_constraint",
     "add_logical_and_constraint", "add_logical_xor_constraint"}

\* The call that made the gate, once made.
Gated == calls # <<>> /\ calls[1].op \in GateOps

Gate == calls[1]

\* The assignments of the builder's variables.
Assignments == [1..formula.highest_variable_index -> BOOLEAN]

LitTrue(asg, l) == IF l > 0 THEN asg[l] ELSE ~asg[-l]

\* The Boolean function of a gate, of the values val(l) of its inputs.
GateFunction(gate, val(_)) ==
    CASE gate.op = "add_logical_equivalence_constraint" -> val(gate.arg.inputs[1])
      [] gate.op = "add_logical_or_constraint" ->
            \E i \in 1..Len(gate.arg.inputs) : val(gate.arg.inputs[i])
      [] gate.op = "add_logical_and_constraint" ->
            \A i \in 1..Len(gate.arg.inputs) : val(gate.arg.inputs[i])
      [] gate.op = "add_logical_xor_constraint" ->
            val(gate.arg.inputs[1]) # val(gate.arg.inputs[2])

AllClauses == formula.unit \o formula.binary \o formula.wide

\* The literal is true in the model the solver found.
ModelTrue(l) == LitValue(solver.assignment, l) = 1

\* A unit clause on the literal was added after the gate.
Asserted(l) ==
    \E i \in 2..Len(calls) :
        calls[i].op = "add_unit_clause" /\ calls[i].arg = <<l>>

\* C11: the clauses a gate appended are all satisfied by an assignment
\* exactly when the output equals the gate's function of the inputs; so in
\* every model the solver finds, whatever unit clauses were added, the output
\* has that value: an AND of two inputs both asserted has its output true,
\* and one with an input refuted has its output false.
C11_GateSemantics ==
    /\ Gated /\ Len(calls) = 1 =>
        \A asg \in Assignments :
            LET val(l) == LitTrue(asg, l)
            IN  (\A k \in 1..Len(AllClauses) :
                    \E i \in 1..Len(AllClauses[k]) : val(AllClauses[k][i]))
                <=> (val(Gate.arg.output) <=> GateFunction(Gate, val))
    /\ Gated /\ IsModel =>
        /\ ModelTrue(Gate.arg.output) <=> GateFunction(Gate, ModelTrue)
        /\ Gate.op = "add_logical_and_constraint" /\ Len(Gate.arg.inputs) = 2 =>
            /\ Asserted(Gate.arg.inputs[1]) /\ Asserted(Gate.arg.inputs[2])
                    => ModelTrue(Gate.arg.output)
            /\ Asserted(-Gate.arg.inputs[1]) \/ Asserted(-Gate.arg.inputs[2])
                    => ~ModelTrue(Gate.arg.output)

\* An AND of two inputs of different variables, both asserted, has a model.
C11_Witness ==
    /\ Gated /\ IsModel
    /\ Gate.op = "add_logical_and_constraint"
    /\ Gate.arg = [output |-> 3, inputs |-> <<1, 2>>]
    /\ Asserted(1) /\ Asserted(2)
    /\ ModelTrue(3)

\* The gate was just made: the builder holds its clauses and no other.
JustGated == Gated /\ Len(calls) = 1

\* A unit clause on the literal or on its negation.
UnitOn(l) ==
    \E k \in 1..Len(formula.unit) :
        formula.unit[k] = <<l>> \/ formula.unit[k] = <<-l>>

NaryGate == Gate.op \in {"add_logical_or_constraint", "add_logical_and_constraint"}

\* C12 as stated: no gate, of any number n >= 0 of inputs, appends a unit
\* clause on its output or on the negation of its output.
C12_AsStated == JustGated => ~UnitOn(Gate.arg.output)

\* C12, amended: an equivalence, an XOR, and an OR or AND of n >= 1 inputs
\* append no unit clause at all; an OR of no inputs appends the unit clause
\* refuting its output, an AND of no inputs the unit clause asserting it.
C12_UnitOnlyWithoutInputs ==
    JustGated =>
        IF NaryGate /\ Gate.arg.inputs = <<>>
        THEN formula.unit =
                <<IF Gate.op = "add_logical_or_constraint"
                  THEN <<-Gate.arg.output>> ELSE <<Gate.arg.output>> >>
        ELSE formula.unit = <<>>

\* An OR of one input: two binary clauses.
C12_Witness ==
    /\ JustGated
    /\ Gate.op = "add_logical_or_constraint"
    /\ Len(Gate.arg.inputs) = 1
    /\ Len(formula.binary) = 2
    /\ formula.unit = <<>>

\* The at-most-one constraint was just made.
JustConstrained ==
    /\ Len(calls) = 1
    /\ calls[1].op = "add_at_most_one_of_constraint"

\* The clauses (not l_i or not l_j), i < j, row by row.
PairwiseExclusions(literals) ==
    LET n == Len(literals)
        pairs == {p \in (1..n) \X (1..n) : p[1] < p[2]}
        Before(p, q) == p[1] < q[1] \/ (p[1] = q[1] /\ p[2] < q[2])
        Rank(p) == 1 + Cardinality({q \in pairs : Before(q, p)})
    IN  [k \in 1..Cardinality(pairs) |->
            LET p == CHOOSE q \in pairs : Rank(q) = k
            IN  <<-literals[p[1]], -literals[p[2]]>>]

\* The call returned having appended the pairwise exclusions of its n
\* literals, n(n-1)/2 binary clauses, and nothing else.
AppendedPairwiseExclusions ==
    LET n == Len(calls[1].arg.inputs)
    IN  /\ ~formula.panicked
        /\ formula.binary = PairwiseExclusions(calls[1].arg.inputs)
        /\ Len(formula.binary) = (n * (n - 1)) \div 2
        /\ formula.unit = <<>> /\ formula.wide = <<>>

\* C13 as stated: add_at_most_one_of_constraint of n literals appends the
\* n(n-1)/2 clauses (not l_i or not l_j), i < j, and nothing else, for every
\* n >= 0.
C13_AsStated == JustConstrained => AppendedPairwiseExclusions

\* C13 for n >= 1, where the code does as stated.
C13_PairwiseForNonEmpty ==
    JustConstrained /\ calls[1].arg.inputs # <<>> => AppendedPairwiseExclusions

\* The call with no literals: it aborts.
C13_Witness ==
    /\ JustConstrained
    /\ calls[1].arg.inputs = <<>>
    /\ formula.panicked

\* ------------------------------------------------ bit vectors, on their own

\* The width of an exclusive upper bound: the k of the least power of two
\* 2^k that is at least the bound.
WidthOf(end) ==
    CHOOSE k \in 0..31 :
        /\ Pow2(k) >= end
        /\ \A j \in 0..(k - 1) : Pow2(j) < end

\* C14: every BitVector::add(a, b) made returned a vector of range
\* a.start + b.start .. (a.end - 1) + (b.end - 1) + 1 and of exactly
\* next_power_of_two(range.end).trailing_zeros() bits, without aborting; two
\* vectors of 3 bits and range 0..8 have a sum of range 0..15 and 4 bits.
C14_AddRangeAndWidth ==
    /\ pc \in {"bits", "tree", "summed", "added"} => ~formula.panicked
    /\ \A i \in AddCalls :
        LET a == calls[i].arg[1]
            b == calls[i].arg[2]
            c == calls[i].ret
        IN  /\ c.range = <<a.range[1] + b.range[1],
                           (a.range[2] - 1) + (b.range[2] - 1) + 1>>
            /\ Len(c.bits) = WidthOf(c.range[2])
            /\ a.range = <<0, 8>> /\ Len(a.bits) = 3
                    /\ b.range = <<0, 8>> /\ Len(b.bits) = 3
                => c.range = <<0, 15>> /\ Len(c.bits) = 4

\* Two different vectors of 3 bits and range 0..8 were added.
C14_Witness ==
    /\ pc = "added"
    /\ LET e == calls[Len(calls)]
       IN  /\ e.arg[1].range = <<0, 8>> /\ Len(e.arg[1].bits) = 3
           /\ e.arg[2].range = <<0, 8>> /\ Len(e.arg[2].bits) = 3
           /\ e.arg[1] # e.arg[2]
           /\ e.ret.range = <<0, 15>> /\ Len(e.ret.bits) = 4

\* The vectors the last call of add_tree was given.
TreeInputs ==
    calls[CHOOSE i \in TreeCalls : \A j \in TreeCalls : j <= i].arg

\* C15: add_tree of the 81 one-bit vectors of from_literal returns a vector
\* of range 0..82 and of exactly 7 bits, so the assertion of build_formula on
\* the width of the count of givens does not fail; add_tree of n one-bit
\* vectors returns a vector of range 0..n+1 and of the width of n + 1.
C15_GivenCountWidth ==
    /\ pc = "counted" =>
        /\ Len(calls[1].arg) = 81
        /\ \A i \in 1..81 :
            calls[1].arg[i].range = <<0, 2>> /\ Len(calls[1].arg[i].bits) = 1
        /\ deque[1].range = <<0, 82>>
        /\ Len(deque[1].bits) = 7
        /\ ~formula.panicked
    /\ pc = "summed" =>
        /\ Len(deque) = 1
        /\ deque[1].range = <<0, Len(TreeInputs) + 1>>
        /\ Len(deque[1].bits) = WidthOf(Len(TreeInputs) + 1)

C15_Witness ==
    /\ pc = "counted"
    /\ Len(calls[1].arg) = 81
    /\ Len(deque[1].bits) = 7
    /\ ~formula.panicked

\* The additions the last call of add_tree has made.
TreeAdds ==
    {i \in AddCalls : \A j \in TreeCalls : j < i}

\* The inputs of the tree summed into a vector.
RECURSIVE Leaves(_)
Leaves(v) ==
    IF \E k \in 1..Len(TreeInputs) : TreeInputs[k] = v
    THEN {v}
    ELSE LET i == CHOOSE j \in TreeAdds : calls[j].ret = v
         IN  Leaves(calls[i].arg[1]) \cup Leaves(calls[i].arg[2])

\* The additions an input passed through.
Passes(x) == Cardinality({i \in TreeAdds : x \in Leaves(calls[i].ret)})

InputSet == {TreeInputs[k] : k \in 1..Len(TreeInputs)}

\* ceil(log2 n) and floor(log2 n).
CeilLog2(n) == CHOOSE k \in 0..31 : Pow2(k) >= n /\ (k = 0 \/ Pow2(k - 1) < n)

FloorLog2(n) == CHOOSE k \in 0..31 : Pow2(k) <= n /\ n < Pow2(k + 1)

\* C16 as stated: when add_tree returns, every one of its n inputs has
\* passed through ceil(log2 n) additions.
C16_AsStated ==
    pc = "summed" =>
        \A x \in InputSet : Passes(x) = CeilLog2(Len(TreeInputs))

\* C16, amended: when add_tree returns, the vector returned sums every
\* input once, every input has passed through floor(log2 n) or ceil(log2 n)
\* additions, and all of them through ceil(log2 n) exactly when n is a power
\* of two.
C16_DepthWithinOne ==
    pc = "summed" =>
        LET n == Len(TreeInputs)
        IN  /\ Cardinality(InputSet) = n
            /\ Leaves(deque[1]) = InputSet
            /\ Cardinality(TreeAdds) = n - 1
            /\ \A x \in InputSet :
                FloorLog2(n) <= Passes(x) /\ Passes(x) <= CeilLog2(n)
            /\ (\A x \in InputSet : Passes(x) = CeilLog2(n))
                    <=> FloorLog2(n) = CeilLog2(n)

\* Three inputs: the third passes through one addition, the others through
\* two.
C16_Witness ==
    /\ pc = "summed"
    /\ Len(TreeInputs) = 3
    /\ Passes(TreeInputs[3]) = 1
    /\ Passes(TreeInputs[1]) = 2 /\ Passes(TreeInputs[2]) = 2

\* ---------------------------------------------- the board, on its own

SawOther == calls # <<>> /\ calls[1].op = "sees_other"

\* Two cells lie in the same 3 by 3 box.
SameBox(a, b) ==
    /\ (a[1] - 1) \div 3 = (b[1] - 1) \div 3
    /\ (a[2] - 1) \div 3 = (b[2] - 1) \div 3

Seen == calls # <<>> /\ calls[1].op = "seen"

\* C17: sees_other is irreflexive and symmetric, true exactly of two
\* different cells that share a row, a column or a box, and every cell, of
\* the 81, sees exactly 20 cells.
C17_SeesOther ==
    /\ SawOther =>
        LET a == calls[1].arg[1]
            b == calls[1].arg[2]
            sees == calls[1].ret
        IN  /\ a = b => ~sees
            /\ sees <=> sees_other(b, a)
            /\ sees <=> /\ a # b
                        /\ a[1] = b[1] \/ a[2] = b[2] \/ SameBox(a, b)
    /\ Seen =>
        /\ Cardinality(calls[1].ret) = 20
        /\ calls[1].ret \subseteq ((1..9) \X (1..9)) \ {calls[1].arg}

\* The cell (1,1) sees 20 cells, (2,2) among them, which shares its box
\* only.
C17_Witness ==
    /\ Seen
    /\ calls[1].arg = <<1, 1>>
    /\ <<2, 2>> \in calls[1].ret
    /\ Cardinality(calls[1].ret) = 20

Boxed == calls # <<>> /\ calls[1].op = "box_"

\* The number of times x occurs in the sequence s.
Count(s, x) == Cardinality({i \in 1..Len(s) : s[i] = x})

\* C18: the box of a cell lists 3 rows, 3 columns and 9 cells, holds the
\* cell's row, the cell's column and the cell once each, and no other box
\* lists the cell.
C18_BoxConsistency ==
    Boxed =>
        LET cell == calls[1].arg
            b == calls[1].ret
        IN  /\ b.box \in 1..9
            /\ Len(b.rows) = 3 /\ Len(b.cols) = 3 /\ Len(b.cells) = 9
            /\ Count(b.rows, cell[1]) = 1
            /\ Count(b.cols, cell[2]) = 1
            /\ Count(b.cells, cell) = 1
            /\ \A other \in (1..9) \ {b.box} :
                Count(Box_cells(other), cell) = 0

\* The cell (5,7) lies in box 6.
C18_Witness ==
    /\ Boxed
    /\ calls[1].arg = <<5, 7>>
    /\ calls[1].ret.box = 6
    /\ calls[1].ret.rows = <<4, 5, 6>>
    /\ calls[1].ret.cols = <<7, 8, 9>>

\* --------------------------------------------------- build_formula, its errors

\* C19 as stated: build_formula with inference_levels = 0 aborts: the
\* terminal tie is never completed, nothing is written to the sink and no
\* map of tagged variables is returned.
C19_AsStated ==
    params.inference_levels = 0 =>
        /\ sink = <<>>
        /\ pc \notin {"written", "solving"}
        /\ pc = "terminal" => formula.panicked

\* In a build without overflow checks, inference_levels = 0 is written out
\* as a formula, its terminal tie on level usize::MAX.
C19_Witness ==
    /\ params.inference_levels = 0
    /\ pc = "written"
    /\ Len(sink) > 1
    /\ HasTag(formula, Forced(1, 1, 1, Pow2(UsizeBits) - 1))

\* The sink holds the first k lines of write_dimacs and at most a proper
\* part of line k + 1, for some line k + 1 of the file.
StoppedAtFailedWrite ==
    LET bufs == write_dimacs(formula)
    IN  \E k \in 0..(Len(bufs) - 1) :
            \/ sink = SubSeq(bufs, 1, k)
            \/ /\ Len(sink) = k + 1
               /\ SubSeq(sink, 1, k) = SubSeq(bufs, 1, k)
               /\ \E n \in 1..(Len(bufs[k + 1]) - 1) :
                      sink[k + 1] = SubSeq(bufs[k + 1], 1, n)

\* C20: when a write of write_dimacs fails, the sink holds what was written
\* before that write and nothing of what comes after it, the builder's
\* clauses and counter are as they were, and build_formula ends with the
\* error: no map is returned and nothing reads the sink.
C20_WriteFailure ==
    /\ [](pc = "failed" => StoppedAtFailedWrite /\ solver = IdleSolver)
    /\ [][/\ pc' = "failed" => pc = "terminal" /\ formula' = formula
          /\ pc # "failed"]_vars

\* The third write fails part-way: the header and one clause are in the
\* sink, then part of the second clause.
C20_Witness ==
    /\ pc = "failed"
    /\ Len(sink) = 3
    /\ sink[1] = HeaderLine(formula)
    /\ Len(sink[3]) < Len(write_dimacs(formula)[3])
    /\ Len(write_dimacs(formula)) > 3

\* ------------------------------------------------------ adders, their models

\* The little-endian value of the bits under an assignment.
RECURSIVE ValueOf(_, _)
ValueOf(asg, bits) ==
    IF bits = <<>>
    THEN 0
    ELSE (IF LitValue(asg, Head(bits)) = 1 THEN 1 ELSE 0)
            + 2 * ValueOf(asg, Tail(bits))

VarsOf(bits) == {Abs(bits[i]) : i \in 1..Len(bits)}

InRange(v, range) == range[1] <= v /\ v < range[2]

\* The assignments of the variables vs among n variables, the others open.
InputAssignments(n, vs) ==
    {Tuple([v \in 1..n |-> IF v \in vs THEN g[v] ELSE 0]) :
        g \in [vs -> {-1, 1}]}

\* What the clauses force from an assignment.
Forced_By(clauses, occ, asg) ==
    Propagate(clauses, occ, asg, 1..Len(clauses))

\* The clauses force a value on every allocated variable and are satisfied
\* by the assignment so forced: it is the one extension that satisfies them.
ExactlyOneExtension(clauses, allocated, r) ==
    /\ ~r.conflict
    /\ \A v \in allocated : r.asg[v] # 0
    /\ \A k \in 1..Len(clauses) : ClauseSatisfied(r.asg, clauses[k])

\* The state is the one BitVector::add returned into.
AddMade ==
    /\ pc \in {"tree", "summed", "added"}
    /\ calls # <<>>
    /\ calls[Len(calls)].op = "add"

\* The iterations of the loop of the add recorded at i: the entries just
\* before it.
IterationsOf(i) ==
    {j \in 1..(i - 1) : \A k \in j..(i - 1) : calls[k].op = "add_iteration"}

\* The variables the last add allocated: its first iteration made an adder,
\* whose sum is the first of them.
AllocatedVariables ==
    LET first == CHOOSE j \in IterationsOf(Len(calls)) :
                     \A k \in IterationsOf(Len(calls)) : j <= k
    IN  calls[first].ret.c_bit..formula.highest_variable_index

\* The clauses the last add appended: those on the variables it allocated.
AppendedClauses ==
    LET OnAllocated(c) ==
            \E i \in 1..Len(c) : Abs(c[i]) \in AllocatedVariables
    IN  SelectSeq(AllClauses, OnAllocated)

AddSums ==
    LET a == calls[Len(calls)].arg[1]
        b == calls[Len(calls)].arg[2]
        c == calls[Len(calls)].ret
        clauses == Tuple(AppendedClauses)
        occ == Occurrences(formula.highest_variable_index, clauses)
    IN  \A asg \in InputAssignments(formula.highest_variable_index,
                                     VarsOf(a.bits) \cup VarsOf(b.bits)) :
            InRange(ValueOf(asg, a.bits), a.range)
                    /\ InRange(ValueOf(asg, b.bits), b.range)
                => LET r == Forced_By(clauses, occ, asg)
                   IN  /\ ExactlyOneExtension(clauses, AllocatedVariables, r)
                       /\ ValueOf(r.asg, c.bits)
                            = ValueOf(asg, a.bits) + ValueOf(asg, b.bits)

\* The adder made on its own: its inputs, its sum and its carry.
AdderInputs == SubSeq(calls[1].arg, 1, Len(calls[1].arg) - 2)

AdderSum == calls[1].arg[Len(calls[1].arg) - 1]

AdderCarry == calls[1].arg[Len(calls[1].arg)]

\* The number of the literals true under the assignment.
RECURSIVE CountTrue(_, _)
CountTrue(asg, bits) ==
    IF bits = <<>>
    THEN 0
    ELSE (IF LitValue(asg, Head(bits)) = 1 THEN 1 ELSE 0)
            + CountTrue(asg, Tail(bits))

AdderSums ==
    \A asg \in InputAssignments(formula.highest_variable_index,
                                 VarsOf(AdderInputs)) :
        LET r == Forced_By(AllClauses,
                           Occurrences(formula.highest_variable_index,
                                       AllClauses), asg)
        IN  /\ ExactlyOneExtension(
                    AllClauses,
                    (Len(deque) + 1)..formula.highest_variable_index, r)
            /\ ValueOf(r.asg, <<AdderSum, AdderCarry>>)
                    = CountTrue(asg, AdderInputs)

\* C21: every BitVector::add(a, b) made is such that each assignment of the
\* bits of a and b with values inside a.range and b.range has exactly one
\* extension to the variables the add allocated that satisfies the clauses
\* it appended, and there the value of the result is value(a) + value(b);
\* a half adder and a full adder on any literals have exactly one extension
\* of each assignment of their inputs, with sum + 2 * carry the number of
\* inputs that are true.
C21_AddersSum ==
    /\ pc = "adder" => AdderSums
    /\ AddMade => AddSums

\* Two vectors of two bits were added: a half adder, then a full adder.
C21_Witness ==
    /\ pc = "added"
    /\ LET e == calls[Len(calls)]
       IN  /\ Len(e.arg[1].bits) = 2 /\ Len(e.arg[2].bits) = 2
           /\ e.arg[1] # e.arg[2]
           /\ Len(e.ret.bits) = 3
    /\ \E i \in 1..Len(calls) :
        calls[i].op = "add_iteration" /\ Len(calls[i].arg) = 3

\* ------------------------------------------------- the loop of BitVector::add

\* The last iteration of the add recorded at i.
LastIteration(i) == i - 1

Longer(a, b) == IF Len(a.bits) >= Len(b.bits) THEN Len(a.bits) ELSE Len(b.bits)

\* C22 as stated: every carry an iteration of BitVector::add left is fetched
\* by the next iteration of that add or is the top bit of its result.
C22_AsStated ==
    \A i \in AddCalls :
        \A j \in IterationsOf(i) :
            calls[j].ret.prev_carry # 0 =>
                \/ /\ j + 1 \in IterationsOf(i)
                   /\ \E k \in 1..Len(calls[j + 1].arg) :
                          calls[j + 1].arg[k] = calls[j].ret.prev_carry
                \/ calls[i].ret.bits[Len(calls[i].ret.bits)]
                        = calls[j].ret.prev_carry

\* The carry the last iteration of the last add left is false under every
\* assignment of the bits of a and b with values inside their ranges.
ResidualCarryFalse ==
    LET a == calls[Len(calls)].arg[1]
        b == calls[Len(calls)].arg[2]
        carry == calls[LastIteration(Len(calls))].ret.prev_carry
        clauses == Tuple(AppendedClauses)
        occ == Occurrences(formula.highest_variable_index, clauses)
    IN  \A asg \in InputAssignments(formula.highest_variable_index,
                                     VarsOf(a.bits) \cup VarsOf(b.bits)) :
            InRange(ValueOf(asg, a.bits), a.range)
                    /\ InRange(ValueOf(asg, b.bits), b.range)
                => LitValue(Forced_By(clauses, occ, asg).asg, carry) = -1

\* C22, amended: every carry an iteration of BitVector::add left before the
\* last is fetched by the next iteration; the last iteration leaves a carry
\* exactly when the result is no wider than the wider of a and b, that
\* carry is in no bit of the result, and it is false whenever the values of
\* a and b are inside their ranges.
C22_ResidualCarryIsZero ==
    /\ \A i \in AddCalls :
        /\ \A j \in IterationsOf(i) \ {LastIteration(i)} :
            /\ calls[j].ret.prev_carry # 0
            /\ \E k \in 1..Len(calls[j + 1].arg) :
                  calls[j + 1].arg[k] = calls[j].ret.prev_carry
        /\ LastIteration(i) \in IterationsOf(i)
        /\ calls[LastIteration(i)].ret.prev_carry # 0
            <=> Len(calls[i].ret.bits)
                    = Longer(calls[i].arg[1], calls[i].arg[2])
        /\ \A k \in 1..Len(calls[i].ret.bits) :
            calls[i].ret.bits[k] # calls[LastIteration(i)].ret.prev_carry
    /\ AddMade /\ calls[LastIteration(Len(calls))].ret.prev_carry # 0
        => ResidualCarryFalse

\* A vector of two bits and a vector of one were added: the second
\* iteration is a half adder whose carry nothing fetches.
C22_Witness ==
    /\ AddMade
    /\ Len(calls[Len(calls)].arg[1].bits) = 1
    /\ Len(calls[Len(calls)].arg[2].bits) = 2
    /\ Len(calls[Len(calls)].ret.bits) = 2
    /\ Len(calls[LastIteration(Len(calls))].arg) = 2
    /\ calls[LastIteration(Len(calls))].ret.prev_carry # 0

\* C23: every iteration of the loop of every BitVector::add made fetched
\* one, two or three bits, nothing aborted, and the loop made exactly as
\* many iterations as the width computed for the result.
C23_LoopBitsAndLength ==
    /\ ~formula.panicked
    /\ \A i \in AddCalls :
        /\ \A j \in IterationsOf(i) :
            Len(calls[j].arg) \in 1..3
        /\ Cardinality(IterationsOf(i)) = WidthOf(calls[i].ret.range[2])
        /\ Cardinality(IterationsOf(i)) = Len(calls[i].ret.bits)

\* An add whose loop fetched two bits, then three, then one: the carry
\* alone.
C23_Witness ==
    /\ AddMade
    /\ Cardinality(IterationsOf(Len(calls))) = 3
    /\ Len(calls[Len(calls) - 3].arg) = 2
    /\ Len(calls[Len(calls) - 2].arg) = 3
    /\ Len(calls[Len(calls) - 1].arg) = 1
    /\ calls[Len(calls) - 1].arg[1] = calls[Len(calls) - 2].ret.prev_carry

\* ------------------------------------------- the circuit against the solution

\* C24: in every model of the formula of L >= 1 levels, at every level
\* below L what is forced is placed and what is eliminated is not placed,
\* and at level L - 1 what is placed is forced and what is not placed is
\* eliminated.
C24_NeverContradictsSolution ==
    IsModel /\ params.inference_levels >= 1 =>
        \A cell \in Cells : \A digit \in Digits :
            \A level \in 0..(params.inference_levels - 1) :
                /\ Holds(Forced(cell[1], cell[2], digit, level))
                       => Holds(Placed(cell[1], cell[2], digit))
                /\ Holds(Eliminated(cell[1], cell[2], digit, level))
                       => ~Holds(Placed(cell[1], cell[2], digit))
                /\ level = params.inference_levels - 1 =>
                    /\ Holds(Placed(cell[1], cell[2], digit))
                           => Holds(Forced(cell[1], cell[2], digit, level))
                    /\ ~Holds(Placed(cell[1], cell[2], digit))
                           => Holds(Eliminated(cell[1], cell[2], digit, level))

\* A model of three levels where level 1 has forced some of the placements
\* on the board and not yet others, and has eliminated placements off the
\* board that level 0 had not.
C24_Witness ==
    /\ IsModel
    /\ params.inference_levels >= 3
    /\ \E cell \in Cells : \E digit \in Digits :
           /\ Holds(Forced(cell[1], cell[2], digit, 1))
           /\ Holds(Placed(cell[1], cell[2], digit))
    /\ \E cell \in Cells : \E digit \in Digits :
           /\ ~Holds(Forced(cell[1], cell[2], digit, 1))
           /\ Holds(Placed(cell[1], cell[2], digit))
    /\ \E cell \in Cells : \E digit \in Digits :
           /\ Holds(Eliminated(cell[1], cell[2], digit, 1))
           /\ ~Holds(Placed(cell[1], cell[2], digit))
    /\ \E cell \in Cells : \E digit \in Digits :
           /\ ~Holds(Eliminated(cell[1], cell[2], digit, 0))
           /\ Holds(Eliminated(cell[1], cell[2], digit, 2))
           /\ ~Holds(Placed(cell[1], cell[2], digit))

\* ----------------------------------------------------- the solver's answer

\* The lines read, by prefix.
SLines == {i \in 1..Len(parse.child_stdout) : parse.child_stdout[i].prefix = "s"}

VLines == {i \in 1..Len(parse.child_stdout) : parse.child_stdout[i].prefix = "v"}

\* The line is s SATISFIABLE, s UNSATISFIABLE, as the solver writes them.
IsSatisfiableLine(line) ==
    line.prefix = "s" /\ line.parts = <<Word("SATISFIABLE")>>

IsUnsatisfiableLine(line) ==
    line.prefix = "s" /\ line.parts = <<Word("UNSATISFIABLE")>>

\* The line is s and the one word satisfiable in any letter case.
IsSatisfiableLineAnyCase(line) ==
    /\ line.prefix = "s"
    /\ Len(line.parts) = 1
    /\ line.parts[1].word \in {"SATISFIABLE", "satisfiable"}

\* The parts of the v lines read, in order.
VParts ==
    Concat([i \in 1..Len(parse.child_stdout) |->
               IF parse.child_stdout[i].prefix = "v"
               THEN parse.child_stdout[i].parts
               ELSE <<>>])

\* The v parts end with a 0 and have no other.
Terminated ==
    /\ VParts # <<>>
    /\ VParts[Len(VParts)] = I32(0)
    /\ \A k \in 1..(Len(VParts) - 1) : VParts[k] # I32(0)

ReturnedSatisfiable == parse.outcome = "Ok" /\ parse.solution = "Satisfiable"

ReturnedUnsatisfiable ==
    parse.outcome = "Ok" /\ parse.solution = "Unsatisfiable"

\* What parse_output and SatSolver::solve do with the output read, where
\* Sat(line) says which line is the solution line of a satisfiable answer.
AnswerParsed(Sat(_)) ==
    /\ ReturnedSatisfiable =>
        /\ Cardinality(SLines) = 1
        /\ \A i \in SLines :
            /\ Sat(parse.child_stdout[i])
            /\ \A j \in VLines : i < j
        /\ Terminated
    \* a second solution line
    /\ (\E i, j \in SLines :
            /\ i < j
            /\ \/ Sat(parse.child_stdout[j])
               \/ IsUnsatisfiableLine(parse.child_stdout[j]))
        => parse.outcome = "Err" /\ parse.error = "multiple solution lines"
    \* a v line before the solution line or after s UNSATISFIABLE
    /\ (\E j \in VLines :
            \/ \A i \in SLines : j < i
            \/ \E i \in SLines :
                i < j /\ IsUnsatisfiableLine(parse.child_stdout[i]))
        => /\ parse.outcome = "Err"
           /\ parse.error = "variable assignments before solution line"
    \* a literal after the 0
    /\ (\E k \in 1..(Len(VParts) - 1) : VParts[k] = I32(0))
        => parse.outcome = "Err"
    \* no 0 when the output ends, or an error or a panic before it ends
    /\ (/\ pc \in {"parsed", "solved"}
        /\ \E i \in SLines : Sat(parse.child_stdout[i])
        /\ \A k \in 1..Len(VParts) : VParts[k] # I32(0))
        => parse.outcome \in {"Err", "panicked"}
    \* SatSolver::solve
    /\ pc = "solved" =>
        (parse.solved = "Ok"
            => \/ parse.exit_code = 10 /\ ReturnedSatisfiable
               \/ parse.exit_code = 20 /\ ReturnedUnsatisfiable)

\* C25 as stated: parse_output returns Satisfiable only when the one
\* solution line read is s SATISFIABLE, it is before every v line and the v
\* parts end with their only 0; a second solution line, a v line before the
\* solution line or after s UNSATISFIABLE, a part after the 0 and a missing
\* 0 are errors; solve accepts only exit code 10 with Satisfiable and 20
\* with Unsatisfiable.
C25_AsStated == AnswerParsed(IsSatisfiableLine)

\* C25, amended: the same, where the solution line of a satisfiable answer
\* is s and the one word satisfiable in any letter case.
C25_AnswerParsedAnyCase == AnswerParsed(IsSatisfiableLineAnyCase)

\* s SATISFIABLE, v 1 -2, v 0 and exit code 10: the solution is accepted,
\* variable 1 true and variable 2 false.
C25_Witness ==
    /\ pc = "solved"
    /\ parse.solved = "Ok"
    /\ parse.exit_code = 10
    /\ parse.child_stdout =
        <<[prefix |-> "s", parts |-> <<Word("SATISFIABLE")>>],
          [prefix |-> "v", parts |-> <<I32(1), I32(-2)>>],
          [prefix |-> "v", parts |-> <<I32(0)>>]>>
    /\ parse.assignments = (1 :> TRUE @@ 2 :> FALSE)

====
